---- MODULE Spec2Model ----
(***************************************************************************)
(* A model of generate_and_send.py: the per-article summarisation          *)
(* pipeline of main (Groq, then OpenAI, then the offline fallback), the    *)
(* post-parse validator, the category classifier and the PDF grouping.     *)
(*                                                                         *)
(* Text is modelled as a sequence of one-symbol tokens: "a" is the         *)
(* character a, "NL" is the line feed and "EMDASH" is U+2014.  A Python    *)
(* value that came out of json.loads is a tagged record (Str, Num, ...),   *)
(* a dict is a record with one field per schema key, a key the dict does   *)
(* not hold being Absent.  A call that can raise returns Ok(v) or Raise.   *)
(***************************************************************************)
EXTENDS Integers, Sequences, FiniteSets, TLC

VARIABLES
    env,         \* which API keys the environment holds: [groq, openai]
    entries,     \* the feed entries, in feed order
    candidates,  \* the entries kept, one per link
    idx,         \* the position in candidates of the article of this iteration
    pc,          \* where main stands
    structured,  \* the records collected so far
    included,    \* the running inclusion counter
    title,       \* the article of this iteration
    link,
    text,
    img_bytes,
    world,       \* what the remote models answer for this article
    parsed,      \* the candidate, None or a dict
    tier,        \* the tier that produced parsed
    tiers,       \* the tiers called for this article, in order
    outcome,     \* how the last finished iteration ended
    rendered,    \* the positions in structured of the records build_pdf laid out, in order
    memo,        \* the keyword scans of the articles of this run, computed once
    call,        \* a function applied on its own: its name and arguments
    ret          \* what that call returned

vars == <<env, entries, candidates, idx, pc, structured, included, title, link,
          text, img_bytes, world, parsed, tier, tiers, outcome, rendered, memo,
          call, ret>>

article == <<title, link, text, img_bytes, world>>

\* what main never writes
aside == <<memo, call, ret>>

\* the variables of main
mainvars == <<env, entries, candidates, idx, pc, structured, included, title, link,
              text, img_bytes, world, parsed, tier, tiers, outcome, rendered>>

(* ------------------------------------------------------------------ *)
(* Characters and Python's str methods                                  *)
(* ------------------------------------------------------------------ *)
UPPER == <<"A","B","C","D","E","F","G","H","I","J","K","L","M",
           "N","O","P","Q","R","S","T","U","V","W","X","Y","Z">>

LOWER == <<"a","b","c","d","e","f","g","h","i","j","k","l","m",
           "n","o","p","q","r","s","t","u","v","w","x","y","z">>

Digits == {"0","1","2","3","4","5","6","7","8","9"}

UpperSet == {UPPER[i] : i \in 1..26}

LowerSet == {LOWER[i] : i \in 1..26}

LowerOf == [c \in UpperSet |-> LOWER[CHOOSE i \in 1..26 : UPPER[i] = c]]

UpperOf == [c \in LowerSet |-> UPPER[CHOOSE i \in 1..26 : LOWER[i] = c]]

IsDigit(c) == c \in Digits

IsAlnum(c) == c \in Digits \/ c \in UpperSet \/ c \in LowerSet

IsWordChar(c) == IsAlnum(c) \/ c = "_"

IsSpace(c) == c \in {" ", "NL", "TAB", "CR"}

lower(s) == [i \in 1..Len(s) |-> IF s[i] \in UpperSet THEN LowerOf[s[i]] ELSE s[i]]

upper(s) == [i \in 1..Len(s) |-> IF s[i] \in LowerSet THEN UpperOf[s[i]] ELSE s[i]]

Min(a, b) == IF a <= b THEN a ELSE b

Max(a, b) == IF a >= b THEN a ELSE b

\* s[:n]
Take(s, n) == SubSeq(s, 1, Min(n, Len(s)))

\* s[a:b] with 0-based a and b, as Python slices a list or a string
Slice(s, a, b) == SubSeq(s, a + 1, Min(b, Len(s)))

rstrip(s) ==
    LET keep == {i \in 1..Len(s) : ~IsSpace(s[i])}
    IN  IF keep = {} THEN <<>>
        ELSE SubSeq(s, 1, CHOOSE i \in keep : \A j \in keep : j <= i)

strip(s) ==
    LET keep == {i \in 1..Len(s) : ~IsSpace(s[i])}
    IN  IF keep = {} THEN <<>>
        ELSE SubSeq(s, CHOOSE i \in keep : \A j \in keep : i <= j,
                       CHOOSE i \in keep : \A j \in keep : j <= i)

endswith(s, c) == Len(s) > 0 /\ s[Len(s)] = c

\* sub occurs in s at (1-based) position i
StartsAt(s, sub, i) ==
    /\ i + Len(sub) - 1 <= Len(s)
    /\ \A j \in 1..Len(sub) : s[i + j - 1] = sub[j]

\* the positions of s where sub occurs
Occurrences(s, sub) ==
    {i \in 1..(Len(s) - Len(sub) + 1) : s[i] = sub[1] /\ StartsAt(s, sub, i)}

\* sub in s
Contains(s, sub) ==
    sub = <<>> \/ \E i \in 1..(Len(s) - Len(sub) + 1) : s[i] = sub[1] /\ StartsAt(s, sub, i)

\* s.count(sub): the non-overlapping occurrences, left to right: an occurrence
\* counts when it starts at or after the end of the one counted before it
RECURSIVE CountFrom(_, _, _)
CountFrom(occ, n, i) ==
    LET at == {k \in occ : k >= i}
    IN  IF at = {} THEN 0
        ELSE 1 + CountFrom(occ, n, (CHOOSE k \in at : \A j \in at : k <= j) + n)

count(s, sub) == CountFrom(Occurrences(s, sub), Len(sub), 1)

\* s.rfind(c) for a one-character c: the 0-based index of the last c, or -1
rfind(s, c) ==
    LET at == {i \in 1..Len(s) : s[i] = c}
    IN  IF at = {} THEN -1 ELSE (CHOOSE i \in at : \A j \in at : j <= i) - 1

RECURSIVE SplitFrom(_, _, _)
SplitFrom(s, seps, start) ==
    LET at == {i \in start..Len(s) : s[i] \in seps}
    IN  IF at = {} THEN <<SubSeq(s, start, Len(s))>>
        ELSE LET i == CHOOSE k \in at : \A j \in at : k <= j
             IN  <<SubSeq(s, start, i - 1)>> \o SplitFrom(s, seps, i + 1)

\* re.split on a class of single characters: every separator cuts, empty pieces are kept
resplit(s, seps) == SplitFrom(s, seps, 1)

RECURSIVE join(_, _)
join(sep, parts) ==
    IF parts = <<>> THEN <<>>
    ELSE IF Len(parts) = 1 THEN parts[1]
    ELSE parts[1] \o sep \o join(sep, Tail(parts))

(* ------------------------------------------------------------------ *)
(* Python values and dicts                                              *)
(* ------------------------------------------------------------------ *)
Absent == [t |-> "absent"]

Null == [t |-> "null"]

Str(s) == [t |-> "str", s |-> s]

Num(n) == [t |-> "num", n |-> n]

\* a list of values
List(l) == [t |-> "list", l |-> l]

\* a nested dict, of which only the keys (what iterating it yields) are kept
Obj(k) == [t |-> "obj", k |-> k]

\* the image bytes of an article: opaque
Bytes(n) == [t |-> "bytes", n |-> n]

Ok(v) == [exc |-> FALSE, v |-> v]

Raise == [exc |-> TRUE]

\* bool(v)
Truthy(v) ==
    CASE v.t = "str" -> v.s # <<>>
      [] v.t = "num" -> v.n # 0
      [] v.t = "bool" -> v.b
      [] v.t = "list" -> v.l # <<>>
      [] v.t = "obj" -> v.k # <<>>
      [] v.t = "bytes" -> TRUE
      [] OTHER -> FALSE

DigitOf == <<"0","1","2","3","4","5","6","7","8","9">>

\* str(v); of a list or a dict only the brackets are kept, the items elided
pystr(v) ==
    CASE v.t = "str" -> v.s
      [] v.t = "null" -> <<"N","o","n","e">>
      [] v.t = "bool" -> IF v.b THEN <<"T","r","u","e">> ELSE <<"F","a","l","s","e">>
      [] v.t = "num" -> IF v.n < 10 THEN <<DigitOf[v.n + 1]>>
                        ELSE <<DigitOf[(v.n \div 10) + 1], DigitOf[(v.n % 10) + 1]>>
      [] v.t = "list" -> IF v.l = <<>> THEN <<"[","]">> ELSE <<"[",".",".",".","]">>
      [] v.t = "obj" -> IF v.k = <<>> THEN <<"{","}">> ELSE <<"{",".",".",".","}">>
      [] OTHER -> <<"b","'",".",".",".","'">>

\* {}; "extra" stands for a key outside the schema
EmptyDict ==
    [include |-> Absent, category |-> Absent, section_heading |-> Absent,
     context |-> Absent, background |-> Absent, key_points |-> Absent,
     impact |-> Absent, upsc_relevance |-> Absent, source |-> Absent,
     image_bytes |-> Absent, extra |-> Absent]

\* A value that is a dict or None: None is <<>>, the dict d is <<d>>
None == <<>>

Some(d) == <<d>>

\* not p
Falsy(p) == p = None \/ p[1] = EmptyDict

\* d.get(key, default)
get(d, key, default) == IF d[key].t = "absent" THEN default ELSE d[key]

\* d.get(key, default) or alt
getor(d, key, default, alt) ==
    IF Truthy(get(d, key, default)) THEN get(d, key, default) ELSE alt

\* d.setdefault(key, v)
setdefault(d, key, v) == IF d[key].t = "absent" THEN [d EXCEPT ![key] = v] ELSE d

\* v.strip() raises AttributeError unless v is a str
HasStrip(v) == v.t = "str"

\* what `for x in v` yields, or Raise when v is not iterable
iter(v) ==
    CASE v.t = "list" -> Ok(v.l)
      [] v.t = "str" -> Ok([i \in 1..Len(v.s) |-> Str(<<v.s[i]>>)])
      [] v.t = "obj" -> Ok([i \in 1..Len(v.k) |-> Str(v.k[i])])
      [] OTHER -> Raise

(* ------------------------------------------------------------------ *)
(* safe_trim                                                            *)
(* ------------------------------------------------------------------ *)
\* re.sub(r'\s+\S*?$', '', window): the leftmost match is the last run of
\* whitespace together with the whitespace-free tail after it; with no
\* whitespace in window nothing matches and window is returned as it is.
\* ($ also matches before a final line feed; safe_trim calls this only when
\* the last character is alphanumeric.)
DropTrailingToken(window) ==
    LET ws == {i \in 1..Len(window) : IsSpace(window[i])}
    IN  IF ws = {} THEN window
        ELSE LET last == CHOOSE i \in ws : \A j \in ws : j <= i
                 run == {i \in 1..last : \A j \in i..last : IsSpace(window[j])}
                 first == CHOOSE i \in run : \A j \in run : i <= j
             IN  SubSeq(window, 1, first - 1)

safe_trim(txt, max_chars) ==
    IF txt = <<>> \/ Len(txt) <= max_chars THEN txt
    ELSE LET window == Take(txt, max_chars)
             last_period == Max(Max(rfind(window, "."), rfind(window, "!")),
                                rfind(window, "?"))
             last_nl == rfind(window, "NL")
         IN  IF last_period # 0 /\ last_period > (6 * max_chars) \div 10
             THEN Take(window, last_period + 1)
             ELSE IF last_nl # 0 /\ last_nl > max_chars \div 2
             THEN rstrip(Take(window, last_nl))
             ELSE IF window # <<>> /\ IsAlnum(window[Len(window)])
             THEN DropTrailingToken(window)
             ELSE window

(* ------------------------------------------------------------------ *)
(* Offline fallback                                                     *)
(* ------------------------------------------------------------------ *)
\* the sentence must be longer than this to be kept
MinSentenceLen == 40

\* sents = [s.strip() for s in re.split(r'\.|\n', text) if len(s.strip()) > 40]
SentencesOf(txt) ==
    LET pieces == resplit(txt, {".", "NL"})
        stripped == [i \in 1..Len(pieces) |-> strip(pieces[i])]
        Long(s) == Len(s) > MinSentenceLen
    IN  SelectSeq(stripped, Long)

OfflineSents(txt) ==
    IF txt \in DOMAIN memo THEN memo[txt].sents ELSE SentencesOf(txt)

\* a deterministic tier whose bullets start at the first sentence
offline_summary_from_first(ttl, txt, url) ==
    LET sents == OfflineSents(txt)
    IN  [EmptyDict EXCEPT !.include = Str(<<"y","e","s">>),
                          !.key_points =
                              List([i \in 1..Len(Take(sents, 5)) |-> Str(sents[i])])]

\* a deterministic tier that comes back with the empty dict
offline_summary_nothing(ttl, txt, url) == EmptyDict

offline_summary_fallback(ttl, txt, url) ==
    LET sents == OfflineSents(txt)
        context == IF sents # <<>> THEN sents[1] ELSE ttl
        background == IF Len(sents) > 1 THEN join(<<" ">>, Slice(sents, 1, 3)) ELSE <<>>
        key_points == IF Len(sents) > 1 THEN Slice(sents, 1, 5) ELSE <<ttl>>
    IN  [include |-> Str(<<"y","e","s">>),
         category |-> Str(<<"M","i","s","c">>),
         section_heading |-> Str(Take(ttl, 100)),
         context |-> Str(Take(context, 600)),
         background |-> Str(Take(background, 800)),
         key_points |-> List([i \in 1..Len(Take(key_points, 5)) |-> Str(key_points[i])]),
         impact |-> Str(<<>>),
         upsc_relevance |-> Str(<<"G","S","2","/","G","S","3"," ","EMDASH"," ","C","u","r","r","e","n","t"," ","A","f","f","a","i","r","s">>),
         source |-> Str(url),
         image_bytes |-> Null,
         extra |-> Absent]

(* ------------------------------------------------------------------ *)
(* Post-parse validation                                                *)
(* ------------------------------------------------------------------ *)
\* a txt longer than this needs terminal punctuation
TruncLen == 120

\* re.search(r'\w{0,3}$', t): up to three word characters, then the end
SearchWordTail(t) ==
    \E k \in 0..3 : k <= Len(t) /\ \A j \in (Len(t) - k + 1)..Len(t) : IsWordChar(t[j])

\* re.search(r'\d+$', t)
SearchDigitTail(t) == Len(t) > 0 /\ IsDigit(t[Len(t)])

\* re.search(r'[\.!?]$', t)
SearchTerminal(t) == Len(t) > 0 /\ t[Len(t)] \in {".", "!", "?"}

\* looks_truncated without its first test, that of the trailing hyphen or dash
LooksTruncatedNoDash(txt) ==
    IF txt = <<>> THEN FALSE
    ELSE LET t == strip(txt)
         IN  \/ SearchWordTail(t) /\ Len(t) > 0 /\ IsAlnum(t[Len(t)]) /\ SearchDigitTail(t)
             \/ Len(t) > TruncLen /\ ~SearchTerminal(t)

\* looks_truncated on a str
LooksTruncatedStr(txt) ==
    IF txt = <<>> THEN FALSE
    ELSE LET t == strip(txt)
         IN  IF endswith(t, "-") \/ endswith(t, "EMDASH") THEN TRUE
             ELSE IF /\ SearchWordTail(t)
                     /\ (Len(t) > 0 /\ IsAlnum(t[Len(t)]) /\ ~endswith(t, "."))
                     /\ SearchDigitTail(t)
             THEN TRUE
             ELSE IF Len(t) > TruncLen /\ ~SearchTerminal(t) THEN TRUE
             ELSE FALSE

\* looks_truncated(text) for any value: `not text` answers False, text.strip()
\* raises on a value that is no str
looks_truncated(txt) ==
    IF ~Truthy(txt) THEN Ok(FALSE)
    ELSE IF ~HasStrip(txt) THEN Raise
    ELSE Ok(LooksTruncatedStr(txt.s))

\* for kp in kps: if looks_truncated(kp): return False -- the first bullet that
\* raises or looks truncated decides
RECURSIVE AnyBulletTruncated(_)
AnyBulletTruncated(kps) ==
    IF kps = <<>> THEN Ok(FALSE)
    ELSE IF looks_truncated(Head(kps)).exc THEN Raise
    ELSE IF looks_truncated(Head(kps)).v THEN Ok(TRUE)
    ELSE AnyBulletTruncated(Tail(kps))

validate_parsed(p) ==
    IF Falsy(p) THEN Ok(FALSE)
    ELSE LET d == p[1]
             include == lower(pystr(get(d, "include", Str(<<"y","e","s">>))))
             context == getor(d, "context", Str(<<>>), Str(<<>>))
             background == getor(d, "background", Str(<<>>), Str(<<>>))
             kps == getor(d, "key_points", List(<<>>), List(<<>>))
         IN  IF include # <<"y","e","s">> THEN Ok(TRUE)
             ELSE IF ~HasStrip(context) THEN Raise
             ELSE IF upper(strip(context.s)) = <<"S","O","U","R","C","E","_","O","N","L","Y">> THEN Ok(TRUE)
             ELSE IF looks_truncated(context).exc THEN Raise
             ELSE IF looks_truncated(context).v THEN Ok(FALSE)
             ELSE IF looks_truncated(background).exc THEN Raise
             ELSE IF looks_truncated(background).v THEN Ok(FALSE)
             ELSE IF iter(kps).exc THEN Raise
             ELSE IF AnyBulletTruncated(iter(kps).v).exc THEN Raise
             ELSE Ok(~AnyBulletTruncated(iter(kps).v).v)

(* ------------------------------------------------------------------ *)
(* Keyword tables                                                       *)
(* ------------------------------------------------------------------ *)
UPSC_KEYWORDS ==
    <<<<"u","p","s","c">>, <<"g","o","v","e","r","n","a","n","c","e">>,
      <<"p","o","l","i","c","y">>, <<"e","n","v","i","r","o","n","m","e","n","t">>,
      <<"e","c","o","n","o","m","y">>, <<"e","t","h","i","c","s">>,
      <<"i","n","t","e","r","n","a","t","i","o","n","a","l">>,
      <<"c","o","n","s","t","i","t","u","t","i","o","n">>,
      <<"b","i","o","d","i","v","e","r","s","i","t","y">>, <<"r","e","f","o","r","m">>,
      <<"i","n","i","t","i","a","t","i","v","e">>, <<"s","c","h","e","m","e">>, <<"p","i","b">>,
      <<"r","e","p","o","r","t">>, <<"s","u","m","m","i","t">>, <<"n","o","b","e","l">>,
      <<"i","s","r","o">>, <<"c","l","i","m","a","t","e">>, <<"v","a","c","c","i","n","e">>,
      <<"t","r","a","d","e">>, <<"r","b","i">>,
      <<"s","u","p","r","e","m","e"," ","c","o","u","r","t">>, <<"s","t","u","d","y">>,
      <<"r","e","s","e","a","r","c","h">>, <<"i","n","d","e","x">>, <<"s","u","r","v","e","y">>,
      <<"m","a","p","p","i","n","g">>, <<"g","e","o","g","r","a","p","h","y">>, <<"m","a","p">>>>

\* the keys of CATEGORY_KEYWORDS, in the order the dict declares them
CategoryOrder ==
    <<<<"G","S","1">>, <<"G","S","2">>, <<"G","S","3">>, <<"G","S","4">>, <<"C","M","E">>,
      <<"M","a","p","p","i","n","g">>, <<"F","F","P">>, <<"M","i","s","c">>>>

\* the keyword lists of CATEGORY_KEYWORDS, by position in CategoryOrder
CATEGORY_KEYWORDS ==
    <<
      \* GS1
      <<<<"t","r","i","b","a","l">>, <<"c","a","s","t","e">>, <<"s","o","c","i","e","t","y">>,
        <<"p","o","p","u","l","a","t","i","o","n">>, <<"c","u","l","t","u","r","e">>,
        <<"h","e","r","i","t","a","g","e">>, <<"m","i","g","r","a","t","i","o","n">>,
        <<"d","e","m","o","g","r","a","p","h","y">>, <<"e","d","u","c","a","t","i","o","n">>,
        <<"h","e","a","l","t","h">>, <<"p","o","v","e","r","t","y">>,
        <<"g","e","o","g","r","a","p","h","y">>, <<"r","i","v","e","r">>,
        <<"p","l","a","t","e","a","u">>>>,
      \* GS2
      <<<<"c","o","n","s","t","i","t","u","t","i","o","n">>, <<"c","a","b","i","n","e","t">>,
        <<"p","a","r","l","i","a","m","e","n","t">>,
        <<"l","e","g","i","s","l","a","t","i","o","n">>, <<"j","u","d","g","m","e","n","t">>,
        <<"s","u","p","r","e","m","e"," ","c","o","u","r","t">>,
        <<"h","i","g","h"," ","c","o","u","r","t">>, <<"g","o","v","e","r","n","a","n","c","e">>,
        <<"p","o","l","i","c","e">>, <<"b","u","r","e","a","u","c","r","a","c","y">>,
        <<"p","o","l","i","c","y">>, <<"p","i","b">>, <<"c","o","u","r","t">>,
        <<"m","i","n","i","s","t","e","r">>,
        <<"a","d","m","i","n","i","s","t","r","a","t","i","o","n">>>>,
      \* GS3
      <<<<"e","c","o","n","o","m","y">>, <<"g","d","p">>, <<"i","n","f","l","a","t","i","o","n">>,
        <<"r","b","i">>, <<"b","a","n","k">>, <<"f","i","n","a","n","c","e">>,
        <<"i","n","d","u","s","t","r","y">>, <<"a","g","r","i","c","u","l","t","u","r","e">>,
        <<"i","n","f","r","a","s","t","r","u","c","t","u","r","e">>,
        <<"c","l","i","m","a","t","e">>, <<"e","n","v","i","r","o","n","m","e","n","t">>,
        <<"i","s","r","o">>, <<"s","c","i","e","n","c","e">>,
        <<"t","e","c","h","n","o","l","o","g","y">>, <<"n","o","b","e","l">>,
        <<"b","i","o","d","i","v","e","r","s","i","t","y">>,
        <<"e","c","o","s","y","s","t","e","m">>, <<"r","e","s","e","a","r","c","h">>,
        <<"e","n","e","r","g","y">>, <<"t","r","a","d","e">>, <<"t","e","c","t","o","n","i","c">>,
        <<"r","i","f","t">>, <<"s","e","d","i","m","e","n","t">>, <<"p","a","l","e","o">>,
        <<"p","a","l","a","e","o">>>>,
      \* GS4
      <<<<"e","t","h","i","c","s">>, <<"i","n","t","e","g","r","i","t","y">>,
        <<"c","o","r","r","u","p","t","i","o","n">>, <<"v","a","l","u","e","s">>,
        <<"m","o","r","a","l">>, <<"p","u","b","l","i","c"," ","s","e","r","v","i","c","e">>,
        <<"c","o","d","e"," ","o","f"," ","c","o","n","d","u","c","t">>,
        <<"e","t","h","i","c","a","l">>>>,
      \* CME
      <<<<"s","t","u","d","y">>, <<"i","n","d","e","x">>, <<"r","e","p","o","r","t">>,
        <<"r","e","s","e","a","r","c","h">>, <<"s","u","r","v","e","y">>,
        <<"a","n","a","l","y","s","i","s">>, <<"p","a","p","e","r">>,
        <<"f","i","n","d","i","n","g">>>>,
      \* Mapping
      <<<<"m","a","p">>, <<"l","o","c","a","t","i","o","n">>,
        <<"g","e","o","g","r","a","p","h","y">>, <<"b","o","u","n","d","a","r","y">>,
        <<"r","i","v","e","r">>, <<"p","l","a","t","e","a","u">>, <<"i","s","l","a","n","d">>>>,
      \* FFP
      <<<<"f","i","n","a","n","c","e">>, <<"f","i","s","c","a","l">>, <<"b","u","d","g","e","t">>,
        <<"p","u","b","l","i","c"," ","f","i","n","a","n","c","e">>, <<"t","a","x">>,
        <<"e","x","p","e","n","d","i","t","u","r","e">>>>,
      \* Misc
      <<>>
    >>

\* the (label, keywords) pairs of RELEVANCE_KEYWORDS, in the order the dict declares them
RELEVANCE_KEYWORDS ==
    <<
      \* environment
      [label |-> <<"G","S","3"," ","EMDASH"," ","E","n","v","i","r","o","n","m","e","n","t">>,
       kws |->
          <<<<"e","n","v","i","r","o","n","m","e","n","t">>, <<"c","l","i","m","a","t","e">>,
            <<"b","i","o","d","i","v","e","r","s","i","t","y">>, <<"f","o","r","e","s","t">>,
            <<"s","p","e","c","i","e","s">>, <<"p","o","l","l","u","t","i","o","n">>,
            <<"e","c","o","s","y","s","t","e","m">>,
            <<"w","e","s","t","e","r","n"," ","g","h","a","t","s">>, <<"g","h","g">>>>],
      \* economy
      [label |-> <<"G","S","3"," ","EMDASH"," ","E","c","o","n","o","m","y">>,
       kws |->
          <<<<"r","b","i">>, <<"i","n","f","l","a","t","i","o","n">>, <<"g","d","p">>,
            <<"f","i","s","c","a","l">>, <<"b","u","d","g","e","t">>,
            <<"e","c","o","n","o","m","y">>, <<"e","x","p","o","r","t","s">>,
            <<"i","m","p","o","r","t","s">>, <<"t","r","a","d","e">>, <<"t","a","x">>,
            <<"f","i","n","a","n","c","e">>>>],
      \* polity
      [label |-> <<"G","S","2"," ","EMDASH"," ","P","o","l","i","t","y"," ","&"," ","G","o","v","e","r","n","a","n","c","e">>,
       kws |->
          <<<<"c","a","b","i","n","e","t">>,
            <<"s","u","p","r","e","m","e"," ","c","o","u","r","t">>,
            <<"h","i","g","h"," ","c","o","u","r","t">>,
            <<"c","o","n","s","t","i","t","u","t","i","o","n">>, <<"b","i","l","l">>,
            <<"a","c","t">>, <<"p","a","r","l","i","a","m","e","n","t">>,
            <<"l","e","g","i","s","l","a","t","i","o","n">>, <<"g","o","v","t">>,
            <<"m","i","n","i","s","t","e","r">>>>],
      \* international
      [label |-> <<"G","S","2"," ","EMDASH"," ","I","n","t","e","r","n","a","t","i","o","n","a","l"," ","R","e","l","a","t","i","o","n","s">>,
       kws |->
          <<<<"s","u","m","m","i","t">>, <<"g","2","0">>, <<"u","n">>,
            <<"t","r","e","a","t","y">>, <<"a","g","r","e","e","m","e","n","t">>,
            <<"c","h","i","n","a">>, <<"i","n","d","i","a">>, <<"f","o","r","e","i","g","n">>,
            <<"d","i","p","l","o","m","a","c","y">>>>],
      \* science
      [label |-> <<"G","S","3"," ","EMDASH"," ","S","c","i","e","n","c","e"," ","&"," ","T","e","c","h">>,
       kws |->
          <<<<"n","o","b","e","l">>, <<"v","a","c","c","i","n","e">>, <<"s","p","a","c","e">>,
            <<"i","s","r","o">>, <<"r","e","s","e","a","r","c","h">>,
            <<"s","c","i","e","n","t","i","s","t","s">>,
            <<"t","e","c","h","n","o","l","o","g","y">>, <<"s","t","u","d","y">>,
            <<"t","e","c","t","o","n","i","c">>, <<"r","i","f","t">>>>],
      \* defence
      [label |-> <<"G","S","3"," ","EMDASH"," ","S","e","c","u","r","i","t","y">>,
       kws |->
          <<<<"d","e","f","e","n","c","e">>, <<"a","r","m","y">>, <<"n","a","v","y">>,
            <<"a","i","r"," ","f","o","r","c","e">>, <<"b","o","r","d","e","r">>,
            <<"t","e","r","r","o","r">>, <<"m","i","l","i","t","a","r","y">>>>],
      \* social
      [label |-> <<"G","S","1"," ","EMDASH"," ","S","o","c","i","e","t","y">>,
       kws |->
          <<<<"t","r","i","b","a","l">>, <<"t","r","i","b","e">>, <<"c","a","s","t","e">>,
            <<"p","o","v","e","r","t","y">>, <<"e","d","u","c","a","t","i","o","n">>,
            <<"h","e","a","l","t","h">>, <<"d","i","s","e","a","s","e">>, <<"w","o","m","e","n">>,
            <<"c","h","i","l","d">>>>],
      \* ethics
      [label |-> <<"G","S","4"," ","EMDASH"," ","E","t","h","i","c","s">>,
       kws |->
          <<<<"e","t","h","i","c","s">>, <<"c","o","r","r","u","p","t","i","o","n">>,
            <<"i","n","t","e","g","r","i","t","y">>, <<"e","t","h","i","c","a","l">>,
            <<"c","o","d","e"," ","o","f"," ","c","o","n","d","u","c","t">>>>]
    >>

(* ------------------------------------------------------------------ *)
(* Classification and relevance                                         *)
(* ------------------------------------------------------------------ *)
\* any(w in s for w in ws)
AnyIn(s, ws) == \E i \in 1..Len(ws) : Contains(s, ws[i])

\* re.search(r'gs\s*([1-4])', s): the positions where "gs", any whitespace
\* and a digit 1..4 follow each other; the digit sits at position GsDigitAt
GsDigitAt(s, i) ==
    LET after == {j \in (i + 2)..Len(s) : ~IsSpace(s[j])}
    IN  IF after = {} THEN 0 ELSE CHOOSE j \in after : \A k \in after : j <= k

GsMatches(s) ==
    {i \in 1..Len(s) : /\ StartsAt(s, <<"g","s">>, i)
                       /\ GsDigitAt(s, i) # 0
                       /\ s[GsDigitAt(s, i)] \in {"1", "2", "3", "4"}}

NormalizeStr(cat_str) ==
    LET s == lower(strip(cat_str))
    IN  IF GsMatches(s) # {}
        THEN LET i == CHOOSE k \in GsMatches(s) : \A j \in GsMatches(s) : k <= j
             IN  <<"G","S">> \o <<s[GsDigitAt(s, i)]>>
        ELSE IF AnyIn(s, <<<<"p","o","l","i","t","y">>, <<"g","o","v","e","r","n","a","n","c","e">>, <<"c","o","n","s","t","i","t","u","t","i","o","n">>, <<"p","a","r","l","i","a","m","e","n","t">>, <<"j","u","d","g","m","e","n","t">>>>)
        THEN <<"G","S","2">>
        ELSE IF AnyIn(s, <<<<"e","c","o","n","o","m","y">>, <<"f","i","n","a","n","c","e">>, <<"g","d","p">>, <<"r","b","i">>, <<"t","r","a","d","e">>, <<"i","n","d","u","s","t","r","y">>>>)
        THEN <<"G","S","3">>
        ELSE IF AnyIn(s, <<<<"e","n","v","i","r","o","n","m","e","n","t">>, <<"c","l","i","m","a","t","e">>, <<"b","i","o","d","i","v","e","r","s","i","t","y">>, <<"t","e","c","t","o","n","i","c">>, <<"p","a","l","e","o">>, <<"n","o","b","e","l">>, <<"i","s","r","o">>>>)
        THEN <<"G","S","3">>
        ELSE IF AnyIn(s, <<<<"e","t","h","i","c">>, <<"e","t","h","i","c","s">>, <<"i","n","t","e","g","r","i","t","y">>, <<"c","o","r","r","u","p","t","i","o","n">>>>)
        THEN <<"G","S","4">>
        ELSE IF AnyIn(s, <<<<"s","o","c","i","e","t","y">>, <<"s","o","c","i","a","l">>, <<"t","r","i","b","a","l">>, <<"c","a","s","t","e">>, <<"e","d","u","c","a","t","i","o","n">>, <<"h","e","a","l","t","h">>>>)
        THEN <<"G","S","1">>
        ELSE IF AnyIn(s, <<<<"c","m","e">>, <<"s","t","u","d","y">>, <<"r","e","p","o","r","t">>, <<"i","n","d","e","x">>, <<"r","e","s","e","a","r","c","h">>>>)
        THEN <<"C","M","E">>
        ELSE IF AnyIn(s, <<<<"m","a","p">>, <<"m","a","p","p","i","n","g">>, <<"g","e","o","g","r","a","p","h","y">>, <<"l","o","c","a","t","i","o","n">>>>)
        THEN <<"M","a","p","p","i","n","g">>
        ELSE IF AnyIn(s, <<<<"f","f","p">>, <<"f","i","n","a","n","c","e">>, <<"f","i","s","c","a","l">>, <<"b","u","d","g","e","t">>>>)
        THEN <<"F","F","P">>
        ELSE <<>>

\* a normaliser that keeps the label the model gave
normalize_keep_label(cat_str) ==
    IF ~Truthy(cat_str) THEN Ok(<<>>)
    ELSE IF ~HasStrip(cat_str) THEN Raise
    ELSE Ok(strip(cat_str.s))

\* normalize_model_category(cat_str) for any value: `not cat_str` answers "",
\* cat_str.strip() raises on a value that is no str
normalize_model_category(cat_str) ==
    IF ~Truthy(cat_str) THEN Ok(<<>>)
    ELSE IF ~HasStrip(cat_str) THEN Raise
    ELSE Ok(NormalizeStr(cat_str.s))

\* the weight 1.0 + min(len(kw) / 12.0, 1.5) of a keyword, in twelfths
Weight12(kw) == 12 + Min(Len(kw), 18)

RECURSIVE SumScore(_, _, _)
SumScore(combined, kws, i) ==
    IF i > Len(kws) THEN 0
    ELSE count(combined, kws[i]) * Weight12(kws[i]) + SumScore(combined, kws, i + 1)

\* scores, in twelfths, by position in CategoryOrder
ScoresOf(ttl, txt) ==
    LET ScoresIn(combined) ==
            [c \in 1..Len(CategoryOrder) |-> SumScore(combined, CATEGORY_KEYWORDS[c], 1)]
    IN  ScoresIn(lower(ttl \o <<" ">> \o txt))

Scores(ttl, txt) ==
    IF txt \in DOMAIN memo /\ ttl \in DOMAIN memo[txt].scores THEN memo[txt].scores[ttl]
    ELSE ScoresOf(ttl, txt)

\* sorted(scores.items(), key=score, reverse=True): stable, so equal scores
\* keep the order of the dict; Rank(sc, r) is the position in CategoryOrder of
\* the r-th entry of sorted_scores
Before(sc, a, b) == sc[a] > sc[b] \/ (sc[a] = sc[b] /\ a < b)

Rank(sc, r) ==
    CHOOSE c \in DOMAIN sc : Cardinality({b \in DOMAIN sc : Before(sc, b, c)}) = r - 1

Priority == <<<<"G","S","2">>, <<"G","S","3">>, <<"G","S","1">>, <<"G","S","4">>, <<"C","M","E">>, <<"F","F","P">>, <<"M","a","p","p","i","n","g">>, <<"M","i","s","c">>>>

CatIndex(cat) == CHOOSE c \in 1..Len(CategoryOrder) : CategoryOrder[c] = cat

\* a classifier that returns the head of sorted_scores: among equal scores,
\* the category declared first
ScoreCategoryByOrder(sc) ==
    IF sc[Rank(sc, 1)] <= 0 THEN <<"M","i","s","c">> ELSE CategoryOrder[Rank(sc, 1)]

ScoreCategory(sc) ==
    LET best == Rank(sc, 1)
        second_score == IF Len(CategoryOrder) > 1 THEN sc[Rank(sc, 2)] ELSE 0
        hits == {p \in 1..Len(Priority) : sc[CatIndex(Priority[p])] = sc[best]}
    IN  IF sc[best] <= 0 THEN <<"M","i","s","c">>
        ELSE IF 10 * second_score >= 7 * sc[best]
        THEN IF hits # {}
             THEN Priority[CHOOSE p \in hits : \A q \in hits : p <= q]
             ELSE CategoryOrder[best]
        ELSE CategoryOrder[best]

\* score_category_by_keywords(title, text)[0]
score_category_by_keywords(ttl, txt) == ScoreCategory(Scores(ttl, txt))

CategoryLabel(cat) ==
    CASE cat = <<"G","S","1">> -> <<"G","S","1"," ","EMDASH"," ","S","o","c","i","e","t","y","/","G","e","o","g","r","a","p","h","y">>
      [] cat = <<"G","S","2">> -> <<"G","S","2"," ","EMDASH"," ","P","o","l","i","t","y"," ","&"," ","G","o","v","e","r","n","a","n","c","e">>
      [] cat = <<"G","S","3">> -> <<"G","S","3"," ","EMDASH"," ","E","c","o","n","o","m","y","/","S","c","i","e","n","c","e","/","E","n","v","i","r","o","n","m","e","n","t">>
      [] cat = <<"G","S","4">> -> <<"G","S","4"," ","EMDASH"," ","E","t","h","i","c","s">>
      [] cat = <<"C","M","E">> -> <<"C","M","E"," ","EMDASH"," ","S","t","u","d","i","e","s"," ","&"," ","R","e","p","o","r","t","s">>
      [] cat = <<"M","a","p","p","i","n","g">> -> <<"M","a","p","p","i","n","g"," ","EMDASH"," ","G","e","o","g","r","a","p","h","y","/","L","o","c","a","t","i","o","n">>
      [] cat = <<"F","F","P">> -> <<"F","F","P"," ","EMDASH"," ","P","u","b","l","i","c"," ","F","i","n","a","n","c","e">>
      [] OTHER -> <<>>

\* the RELEVANCE_KEYWORDS entries one of whose keywords occurs in title + " " + text
RelevanceHitsOf(ttl, txt) ==
    LET HitsIn(combined) ==
            {k \in 1..Len(RELEVANCE_KEYWORDS) : AnyIn(combined, RELEVANCE_KEYWORDS[k].kws)}
    IN  HitsIn(lower(ttl \o <<" ">> \o txt))

RelevanceHits(ttl, txt) ==
    IF txt \in DOMAIN memo /\ ttl \in DOMAIN memo[txt].hits THEN memo[txt].hits[ttl]
    ELSE RelevanceHitsOf(ttl, txt)

\* the label of the first entry that hits, else the label of the scored category
InferFromText(ttl, txt) ==
    LET hits == RelevanceHits(ttl, txt)
        cat == score_category_by_keywords(ttl, txt)
    IN  IF hits # {}
        THEN RELEVANCE_KEYWORDS[CHOOSE k \in hits : \A j \in hits : k <= j].label
        ELSE IF CategoryLabel(cat) # <<>> THEN CategoryLabel(cat)
        ELSE <<"G","e","n","e","r","a","l"," ","C","u","r","r","e","n","t"," ","A","f","f","a","i","r","s">>

infer_upsc_relevance(d, ttl, txt) ==
    LET rel == getor(d, "upsc_relevance", Null, Str(<<>>))
        cat == getor(d, "category", Str(<<>>), Str(<<>>))
    IN  IF ~HasStrip(rel) THEN Raise
        ELSE LET upsc_rel == strip(rel.s)
             IN  IF /\ upsc_rel # <<>>
                    /\ Len(upsc_rel) > 6
                    /\ lower(upsc_rel) \notin {<<"g","e","n","e","r","a","l"," ","c","u","r","r","e","n","t"," ","a","f","f","a","i","r","s">>, <<"g","e","n","e","r","a","l">>, <<"n","/","a">>, <<>>}
                 THEN Ok(upsc_rel)
                 ELSE IF normalize_model_category(cat).exc THEN Raise
                 ELSE IF normalize_model_category(cat).v # <<>>
                 THEN Ok(CategoryLabel(normalize_model_category(cat).v))
                 ELSE Ok(InferFromText(ttl, txt))

(* ------------------------------------------------------------------ *)
(* The reply of a remote model and extract_json_substring               *)
(* ------------------------------------------------------------------ *)
\* The message content of a reply is a sequence of lexical tokens: free text,
\* an opening brace, a closing brace, a "key": value member whose value is a
\* scalar or a list, and the "key": that precedes a nested {...}.
Txt == [t |-> "txt"]

LB == [t |-> "lb"]

RB == [t |-> "rb"]

Mem(k, v) == [t |-> "mem", k |-> k, v |-> v]

Key(k) == [t |-> "key", k |-> k]

\* the braces a token holds, in order, as +1 and -1; a brace inside a string
\* literal counts too, the scan being over characters
BracesOfStr(s) ==
    LET at == SelectSeq([i \in 1..Len(s) |-> i], LAMBDA i : s[i] \in {"{", "}"})
    IN  [j \in 1..Len(at) |-> IF s[at[j]] = "{" THEN 1 ELSE -1]

Braces(tok) ==
    CASE tok.t = "lb" -> <<1>>
      [] tok.t = "rb" -> <<-1>>
      [] tok.t = "mem" /\ tok.v.t = "str" -> BracesOfStr(tok.v.s)
      [] OTHER -> <<>>

RECURSIVE SumSeq(_)
SumSeq(q) == IF q = <<>> THEN 0 ELSE Head(q) + SumSeq(Tail(q))

\* the depth after the first n braces of q
DepthAfter(q, n) == SumSeq(SubSeq(q, 1, n))

\* the depth reaches 0 inside token tok when the scan enters it at depth d
ClosesIn(tok, d) == \E n \in 1..Len(Braces(tok)) : d + DepthAfter(Braces(tok), n) = 0

RECURSIVE DepthBefore(_, _, _)
DepthBefore(s, start, i) ==
    IF i <= start THEN 0
    ELSE DepthBefore(s, start, i - 1) + SumSeq(Braces(s[i - 1]))

\* json.loads of the tokens lb ... rb: the dict of the members, or None when
\* the text between the braces is not a list of members
RECURSIVE LoadMembers(_, _)
LoadMembers(inner, d) ==
    IF inner = <<>> THEN Some(d)
    ELSE IF Head(inner).t = "mem"
    THEN LoadMembers(Tail(inner), [d EXCEPT ![Head(inner).k] = Head(inner).v])
    ELSE IF /\ Head(inner).t = "key"
            /\ Len(inner) >= 3
            /\ inner[2] = LB
            /\ inner[3] = RB
    THEN LoadMembers(SubSeq(inner, 4, Len(inner)), [d EXCEPT ![Head(inner).k] = Obj(<<>>)])
    ELSE None

json_loads(slice) ==
    IF Len(slice) >= 2 /\ slice[1] = LB /\ slice[Len(slice)] = RB
    THEN LoadMembers(SubSeq(slice, 2, Len(slice) - 1), EmptyDict)
    ELSE None

extract_json_substring(s) ==
    LET opens == {i \in 1..Len(s) : s[i] = LB}
    IN  IF s = <<>> \/ opens = {} THEN None
        ELSE LET start == CHOOSE i \in opens : \A j \in opens : i <= j
                 closes == {i \in start..Len(s) : ClosesIn(s[i], DepthBefore(s, start, i))}
             IN  IF closes = {} THEN None
                 ELSE LET i == CHOOSE k \in closes : \A j \in closes : k <= j
                      IN  IF s[i] = RB THEN json_loads(SubSeq(s, start, i)) ELSE None

\* the reply text a model writes for the dict d: its members between braces
RECURSIVE Members(_, _)
Members(d, ks) ==
    IF ks = <<>> THEN <<>>
    ELSE IF d[Head(ks)].t = "absent" THEN Members(d, Tail(ks))
    ELSE IF d[Head(ks)].t = "obj"
    THEN <<Key(Head(ks)), LB, RB>> \o Members(d, Tail(ks))
    ELSE <<Mem(Head(ks), d[Head(ks)])>> \o Members(d, Tail(ks))

KeyOrder == <<"include", "category", "section_heading", "context", "background",
              "key_points", "impact", "upsc_relevance", "source", "extra">>

Encode(d) == <<LB>> \o Members(d, KeyOrder) \o <<RB>>

(* ------------------------------------------------------------------ *)
(* The remote tiers                                                     *)
(* ------------------------------------------------------------------ *)
\* What the Groq endpoint does with the requests of one article: the first
\* `fails` requests raise, the next is answered with `status` and a body that
\* is JSON with the reply text `content` (json) or is not (~json).
GroqReply(fails, status, json, content) ==
    [fails |-> fails, status |-> status, json |-> json, content |-> content]

NoResponse == <<>>

call_groq_with_retries(reply, attempts) ==
    IF reply.fails >= attempts THEN NoResponse ELSE <<reply>>

groq_summarize(api_key, reply) ==
    IF ~api_key THEN None
    ELSE LET r == call_groq_with_retries(reply, 3)
         IN  IF r = NoResponse THEN None
             ELSE IF r[1].status # 200 THEN None
             ELSE IF ~r[1].json THEN None
             ELSE extract_json_substring(r[1].content)

\* What the OpenAI client does: it raises (error) or returns the reply text
OpenAIReply(error, content) == [error |-> error, content |-> content]

openai_summarize(openai_key, reply) ==
    IF ~openai_key THEN None
    ELSE IF reply.error THEN None
    ELSE extract_json_substring(reply.content)

(* ------------------------------------------------------------------ *)
(* The feeds, the pages and the replies the model is checked on         *)
(* ------------------------------------------------------------------ *)
\* the sentences of the pages: three the offline fallback keeps (more than 40
\* characters), one of them ending in a year, and short ones
Sentence ==
    [policy |-> <<"T","h","e"," ","c","a","b","i","n","e","t"," ","a","p","p","r","o","v","e","d"," ","a"," ","n","e","w"," ","p","o","l","i","c","y"," ","f","o","r"," ","r","i","v","e","r"," ","b","a","s","i","n","s">>,
     finance |-> <<"T","h","e"," ","f","i","n","a","n","c","e"," ","m","i","n","i","s","t","r","y"," ","w","i","l","l"," ","f","u","n","d"," ","t","h","e"," ","r","u","r","a","l"," ","s","c","h","e","m","e">>,
     reform |-> <<"E","x","p","e","r","t","s"," ","t","o","l","d"," ","p","a","r","l","i","a","m","e","n","t"," ","t","h","e"," ","r","e","f","o","r","m","s"," ","n","e","e","d"," ","f","u","n","d","s">>,
     year |-> <<"T","h","e"," ","e","c","o","n","o","m","y"," ","g","r","e","w"," ","b","y"," ","s","e","v","e","n"," ","p","e","r","c","e","n","t"," ","i","n"," ","f","i","s","c","a","l"," ","2","0","2","3">>,
     short |->
        <<<<"R","a","i","n"," ","h","i","t"," ","t","h","e"," ","c","o","a","s","t">>, <<"T","e","a","m","s"," ","w","e","r","e"," ","s","e","n","t"," ","o","u","t">>, <<"B","o","a","t","s"," ","s","t","a","y","e","d"," ","i","n"," ","p","o","r","t">>,
          <<"R","o","a","d","s"," ","w","e","r","e"," ","s","h","u","t">>, <<"S","c","h","o","o","l","s"," ","w","e","r","e"," ","c","l","o","s","e","d">>, <<"P","o","w","e","r"," ","l","i","n","e","s"," ","f","e","l","l">>,
          <<"C","r","e","w","s"," ","c","l","e","a","r","e","d"," ","t","r","e","e","s">>, <<"S","h","o","p","s"," ","o","p","e","n","e","d"," ","l","a","t","e">>, <<"T","r","a","i","n","s"," ","r","a","n"," ","s","l","o","w">>,
          <<"B","u","s","e","s"," ","w","e","r","e"," ","f","u","l","l">>, <<"C","a","l","m"," ","c","a","m","e"," ","b","y"," ","d","u","s","k">>, <<"S","k","i","e","s"," ","c","l","e","a","r","e","d"," ","u","p">>,
          <<"F","o","l","k"," ","w","e","n","t"," ","h","o","m","e">>, <<"A","i","d"," ","c","a","m","e"," ","i","n">>, <<"A","l","l"," ","a","r","e"," ","s","a","f","e"," ","n","o","w">>, <<"W","o","r","k"," ","g","o","e","s"," ","o","n">>,
          <<"D","a","w","n"," ","w","a","s"," ","q","u","i","e","t">>, <<"B","i","r","d","s"," ","s","a","n","g"," ","a","g","a","i","n">>, <<"L","i","f","e"," ","m","o","v","e","d"," ","o","n">>>>]

\* the texts of the pages: plain starts with three long sentences, digit with
\* the one that ends in a year, short has no sentence longer than 40 characters
PageText ==
    [plain |-> join(<<"."," ">>, <<Sentence.policy, Sentence.finance, Sentence.reform>>
                             \o SubSeq(Sentence.short, 1, 12)) \o <<".">>,
     digit |-> join(<<"."," ">>, <<Sentence.year, Sentence.finance, Sentence.reform>>
                             \o SubSeq(Sentence.short, 1, 12)) \o <<".">>,
     short |-> join(<<"."," ">>, Sentence.short) \o <<".">>]

\* len(text.split())
WordCount(txt) ==
    Cardinality({i \in 1..Len(txt) :
        ~IsSpace(txt[i]) /\ (i = 1 \/ IsSpace(txt[i - 1]))})

\* what extract_article_text_and_image returns: "" or a text of more than 60 words
Extractable(txt) == txt = <<>> \/ WordCount(txt) > 60

Page(txt, img) == [text |-> txt, img |-> img]

Pages ==
    {p \in {Page(<<>>, Null), Page(PageText.plain, Bytes(1)), Page(PageText.digit, Null),
            Page(PageText.short, Null)} : Extractable(p.text)}

\* the start of the page as the keyword filter sees it, or "" when the request fails
Previews == {<<>>, <<"a"," ","r","e","p","o","r","t"," ","o","n"," ","p","o","l","i","c","y">>}

Entry(ttl, lnk) == [title |-> ttl, link |-> lnk]

\* the entries of the feeds
Headline ==
    [cabinet |-> Entry(<<"C","a","b","i","n","e","t"," ","c","l","e","a","r","s"," ","r","i","v","e","r"," ","p","o","l","i","c","y">>, <<"u","1">>),
     budget |-> Entry(<<"B","u","d","g","e","t"," ","2","0","2","4">>, <<"u","2">>),
     untitled |-> Entry(<<>>, <<"u","3">>)]

\* the entries the feeds deliver, in order
Feeds ==
    {<<Headline.budget>>, <<Headline.untitled>>,
     <<Headline.cabinet, Headline.cabinet, Headline.budget>>}

Yes == Str(<<"y","e","s">>)

\* the JSON objects the remote models answer with
Answer ==
    LET full ==
            [EmptyDict EXCEPT !.include = Yes,
                              !.category = Str(<<"P","o","l","i","t","y">>),
                              !.section_heading = Str(<<"R","i","v","e","r"," ","p","o","l","i","c","y">>),
                              !.context = Str(<<"T","h","e"," ","c","a","b","i","n","e","t"," ","a","p","p","r","o","v","e","d"," ","a"," ","r","i","v","e","r"," ","p","o","l","i","c","y",".">>),
                              !.background = Str(<<"B","a","s","i","n"," ","p","l","a","n","s"," ","w","e","r","e"," ","p","e","n","d","i","n","g",".">>),
                              !.key_points = List(<<Str(<<"S","t","a","t","e","s"," ","m","u","s","t"," ","f","i","l","e"," ","p","l","a","n","s",".">>),
                                                    Str(<<"F","u","n","d","i","n","g"," ","i","s"," ","c","e","n","t","r","a","l",".">>)>>),
                              !.impact = Str(<<"B","e","t","t","e","r"," ","w","a","t","e","r"," ","u","s","e",".">>),
                              !.upsc_relevance = Str(<<"G","S","2"," ","g","o","v","e","r","n","a","n","c","e">>),
                              !.source = Str(<<"u","0">>)]
        source_only ==
            [EmptyDict EXCEPT !.include = Yes, !.context = Str(<<" ","s","o","u","r","c","e","_","o","n","l","y"," ">>),
                              !.key_points = Null, !.category = Str(<<"G","S"," ","3"," ","e","c","o","n","o","m","y">>)]
    IN  [empty |-> EmptyDict,
         \* a complete answer
         full |-> full,
         \* cut off in the context
         trunc |-> [full EXCEPT !.context = Str(<<"T","h","e"," ","p","a","n","e","l"," ","w","i","l","l"," ","d","e","c","i","d","e"," ","t","h","e"," ","n","e","x","t"," ","s","t","e","p","-">>)],
         \* cut off in a bullet
         trunc_kp |-> [full EXCEPT !.key_points = List(<<Str(<<"F","u","n","d","i","n","g"," ","i","s"," ","c","e","n","t","r","a","l",".">>),
                                                        Str(<<"O","u","t","l","a","y"," ","o","f"," ","R","s"," ","5","0","0">>)>>)],
         \* only the include flag
         bare |-> [EmptyDict EXCEPT !.include = Yes],
         \* only a key outside the schema
         extra |-> [EmptyDict EXCEPT !.extra = Str(<<"x">>)],
         no |-> [full EXCEPT !.include = Str(<<"N","o">>)],
         kp_null |-> [full EXCEPT !.key_points = Null, !.category = Str(<<"S","p","o","r","t","s">>),
                                  !.upsc_relevance = Null],
         kp_num |-> [full EXCEPT !.key_points = Num(5)],
         kp_str |-> [full EXCEPT !.key_points = Str(<<"P","l","a","n","s"," ","a","r","e"," ","d","u","e",";"," ","f","u","n","d","s"," ","a","r","e"," ","c","e","n","t","r","a","l">>),
                                 !.category = Absent, !.upsc_relevance = Str(<<"G","e","n","e","r","a","l">>)],
         kp_items |-> [full EXCEPT !.key_points = List(<<Str(<<"F","u","n","d","i","n","g"," ","i","s"," ","c","e","n","t","r","a","l",".">>), Num(7)>>)],
         \* one bullet twice, up to case and spacing
         kp_twice |-> [full EXCEPT !.key_points = List(<<Str(<<"F","u","n","d","i","n","g"," ","i","s"," ","c","e","n","t","r","a","l",".">>),
                                                        Str(<<"f","u","n","d","i","n","g"," "," ","i","s"," ","C","e","n","t","r","a","l",".">>)>>)],
         \* no bullet at all
         kp_empty |-> [full EXCEPT !.key_points = List(<<>>)],
         source_only |-> source_only,
         source_only_num |-> [source_only EXCEPT !.key_points = Num(5)],
         ctx_num |-> [full EXCEPT !.context = Num(5)],
         cat_list |-> [full EXCEPT !.category = List(<<Str(<<"G","S","2">>)>>)],
         nested |-> [full EXCEPT !.impact = Obj(<<>>), !.background = Null,
                                 !.category = Str(<<"S","p","o","r","t","s">>)],
         \* a closing brace inside a string: the scan of the braces stops there
         brace |-> [full EXCEPT !.background = Str(<<"E","n","d"," ","o","f"," ","c","l","a","u","s","e"," ","}",".">>)]]

Answers == {Answer[k] : k \in DOMAIN Answer}

\* the replies of Groq: every answer between two pieces of free text after no
\* failed request, and the failures
GroqReplies ==
    {GroqReply(0, 200, TRUE, <<Txt>> \o Encode(d) \o <<Txt>>) : d \in Answers} \cup
    {GroqReply(1, 200, TRUE, Encode(Answer.full)),
     GroqReply(3, 200, TRUE, Encode(Answer.full)),
     GroqReply(0, 500, TRUE, Encode(Answer.full)),
     GroqReply(2, 200, FALSE, <<>>),
     GroqReply(0, 200, TRUE, <<>>),
     GroqReply(0, 200, TRUE, <<Txt>>),
     GroqReply(0, 200, TRUE, <<LB, Txt, RB>>),
     GroqReply(0, 200, TRUE, <<Txt, LB, Mem("include", Yes)>>)}

OpenAIReplies ==
    {OpenAIReply(TRUE, <<>>), OpenAIReply(FALSE, Encode(Answer.full)),
     OpenAIReply(FALSE, Encode(Answer.trunc)), OpenAIReply(FALSE, <<Txt>>)}

\* The OpenAI reply matters only when Groq has failed or its answer is
\* rejected: the other Groq replies are paired with one OpenAI reply.
Worlds ==
    {[groq |-> g, openai |-> o] : g \in GroqReplies, o \in {OpenAIReply(TRUE, <<>>)}} \cup
    {[groq |-> g, openai |-> o] :
        g \in {GroqReply(3, 200, TRUE, Encode(Answer.full)),
               GroqReply(0, 200, TRUE, <<Txt>> \o Encode(Answer.trunc) \o <<Txt>>)},
        o \in OpenAIReplies}

(* ------------------------------------------------------------------ *)
(* main                                                                 *)
(* ------------------------------------------------------------------ *)
MAX_CANDIDATES == 30

MAX_INCLUSIONS == 12

\* main applies no function on its own
NoCall == [f |-> "none", t |-> "none"]

NoWorld == [groq |-> GroqReply(3, 200, FALSE, <<>>), openai |-> OpenAIReply(TRUE, <<>>)]

\* candidates filled with the first entries of the feed, repeated links included
BuildCandidatesPlain(es, seen, acc) == Take(es, MAX_CANDIDATES)

\* the loop that fills candidates: one entry per link, first occurrence, at most MAX_CANDIDATES
RECURSIVE BuildCandidates(_, _, _)
BuildCandidates(es, seen, acc) ==
    IF es = <<>> THEN acc
    ELSE IF Head(es).link \in seen THEN BuildCandidates(Tail(es), seen, acc)
    ELSE IF Len(acc) + 1 >= MAX_CANDIDATES THEN Append(acc, Head(es))
    ELSE BuildCandidates(Tail(es), seen \cup {Head(es).link}, Append(acc, Head(es)))

\* the scans of every article the feeds and the pages of this run can pair:
\* by text, the sentences of the offline fallback and, by title, the keyword
\* scores and the relevance entries that hit
MemoOfRun ==
    LET ttls == UNION {{es[i].title : i \in 1..Len(es)} : es \in Feeds}
        txts == {p.text : p \in Pages}
    IN  [t \in txts |->
            [sents |-> SentencesOf(t),
             scores |-> [ttl \in ttls |-> ScoresOf(ttl, t)],
             hits |-> [ttl \in ttls |-> RelevanceHitsOf(ttl, t)]]]

\* a tier whose key is not set sends no request and hears no reply
Heard(w) ==
    [groq |-> IF env.groq THEN w.groq ELSE NoWorld.groq,
     openai |-> IF env.openai THEN w.openai ELSE NoWorld.openai]

Init ==
    /\ memo = MemoOfRun
    /\ env \in [groq : BOOLEAN, openai : BOOLEAN]
    /\ entries \in Feeds
    /\ candidates = <<>>
    /\ idx = 1
    /\ pc = "start"
    /\ structured = <<>>
    /\ included = 0
    /\ title = <<>>
    /\ link = <<>>
    /\ text = <<>>
    /\ img_bytes = Null
    /\ world = NoWorld
    /\ parsed = None
    /\ tier = "none"
    /\ tiers = <<>>
    /\ outcome = "none"
    /\ rendered = <<>>
    /\ call = NoCall
    /\ ret = NoCall

Collect ==
    /\ pc = "start"
    /\ candidates' = BuildCandidates(entries, {}, <<>>)
    /\ pc' = "loop"
    /\ UNCHANGED <<aside, env, entries, idx, structured, included, article, parsed, tier,
                   tiers, outcome, rendered>>

\* `continue`: on to the next candidate
Skip(how) ==
    /\ idx' = idx + 1
    /\ pc' = "loop"
    /\ outcome' = how

\* an exception nothing catches ends main: "raised" in the loop body,
\* "pdf_raised" in build_pdf
Crash(how) ==
    /\ pc' = "crashed"
    /\ outcome' = how

NextCandidate ==
    /\ pc = "loop"
    /\ idx <= Len(candidates)
    /\ included < MAX_INCLUSIONS
    /\ title' = candidates[idx].title
    /\ link' = candidates[idx].link
    /\ text' = <<>>
    /\ img_bytes' = Null
    /\ world' = NoWorld
    /\ parsed' = None
    /\ tier' = "none"
    /\ tiers' = <<>>
    /\ pc' = "filter"
    /\ UNCHANGED <<aside, env, entries, candidates, idx, structured, included, outcome, rendered>>

LoopEnd ==
    /\ pc = "loop"
    /\ idx > Len(candidates) \/ included >= MAX_INCLUSIONS
    /\ pc' = "finish"
    /\ UNCHANGED <<aside, env, entries, candidates, idx, structured, included, article,
                   parsed, tier, tiers, outcome, rendered>>

PassesFilter(ttl, text_preview) ==
    AnyIn(lower(ttl \o <<" ">> \o text_preview), UPSC_KEYWORDS)

KeywordFilter ==
    /\ pc = "filter"
    /\ \E text_preview \in Previews :
          IF ~PassesFilter(title, text_preview)
          THEN Skip("filtered")
          ELSE /\ pc' = "extract"
               /\ UNCHANGED <<idx, outcome>>
    /\ UNCHANGED <<aside, env, entries, candidates, structured, included, article, parsed,
                   tier, tiers, rendered>>

\* text, img_bytes = extract_article_text_and_image(link), where the site
\* serves one of the pages of `served` and the remote tiers would answer the
\* replies that go with it
ExtractFrom(served) ==
    /\ pc = "extract"
    /\ \E s \in served :
          /\ text' = s.page.text
          /\ img_bytes' = s.page.img
          /\ world' = IF s.page.text = <<>> THEN NoWorld ELSE Heard(s.w)
          /\ IF s.page.text = <<>>
             THEN Skip("notext")
             ELSE /\ pc' = "groq"
                  /\ UNCHANGED <<idx, outcome>>
    /\ UNCHANGED <<aside, env, entries, candidates, structured, included, title, link,
                   parsed, tier, tiers, rendered>>

Extract == ExtractFrom({[page |-> page, w |-> w] : page \in Pages, w \in Worlds})

TryGroq ==
    /\ pc = "groq"
    /\ parsed' = groq_summarize(env.groq, world.groq)
    /\ tier' = "groq"
    /\ tiers' = Append(tiers, "groq")
    /\ pc' = IF parsed' = None /\ env.openai THEN "openai"
             ELSE IF parsed' = None THEN "offline"
             ELSE "check"
    /\ UNCHANGED <<aside, env, entries, candidates, idx, structured, included, article,
                   outcome, rendered>>

TryOpenAI ==
    /\ pc = "openai"
    /\ parsed' = openai_summarize(env.openai, world.openai)
    /\ tier' = "openai"
    /\ tiers' = Append(tiers, "openai")
    /\ pc' = IF parsed' = None THEN "offline" ELSE "check"
    /\ UNCHANGED <<aside, env, entries, candidates, idx, structured, included, article,
                   outcome, rendered>>

OfflineFallback ==
    /\ pc = "offline"
    /\ parsed' = Some(offline_summary_fallback(title, text, link))
    /\ tier' = "offline"
    /\ tiers' = Append(tiers, "offline")
    /\ pc' = "check"
    /\ UNCHANGED <<aside, env, entries, candidates, idx, structured, included, article,
                   outcome, rendered>>

\* if not parsed: continue; if include_flag != "yes": continue
CheckParsed ==
    /\ pc = "check"
    /\ IF Falsy(parsed) THEN Skip("empty")
       ELSE IF lower(pystr(get(parsed[1], "include", Yes))) # <<"y","e","s">> THEN Skip("excluded")
       ELSE /\ pc' = "validate"
            /\ UNCHANGED <<idx, outcome>>
    /\ UNCHANGED <<aside, env, entries, candidates, structured, included, article, parsed,
                   tier, tiers, rendered>>

\* The SOURCE_ONLY branch of main: the record is kept and marked
MarkSourceOnly(d, ttl, txt) ==
    LET d1 == [d EXCEPT !.context = Str(<<"S","O","U","R","C","E","_","O","N","L","Y"," ","(","s","e","e"," ","s","o","u","r","c","e"," ","l","i","n","k",")">>),
                        !.key_points = getor(d, "key_points", List(<<>>), List(<<>>)),
                        !.background = getor(d, "background", Str(<<>>), Str(<<>>)),
                        !.impact = getor(d, "impact", Str(<<>>), Str(<<>>))]
        rel == infer_upsc_relevance(d1, ttl, txt)
        cat == normalize_model_category(get(d1, "category", Str(<<>>)))
    IN  IF rel.exc \/ cat.exc THEN Raise
        ELSE Ok([d1 EXCEPT !.upsc_relevance = Str(rel.v),
                           !.category = Str(IF cat.v # <<>> THEN cat.v
                                            ELSE score_category_by_keywords(ttl, txt))])

\* ctx_val = (parsed.get("context") or "").strip()
CtxVal(d) ==
    LET c == getor(d, "context", Null, Str(<<>>))
    IN  IF HasStrip(c) THEN Ok(strip(c.s)) ELSE Raise

Validate ==
    /\ pc = "validate"
    /\ IF CtxVal(parsed[1]).exc THEN Crash("raised") /\ UNCHANGED <<parsed, tier, tiers>>
       ELSE IF upper(CtxVal(parsed[1]).v) = <<"S","O","U","R","C","E","_","O","N","L","Y">>
       THEN IF MarkSourceOnly(parsed[1], title, text).exc
            THEN Crash("raised") /\ UNCHANGED <<parsed, tier, tiers>>
            ELSE /\ parsed' = Some(MarkSourceOnly(parsed[1], title, text).v)
                 /\ pc' = "classify"
                 /\ UNCHANGED <<tier, tiers, outcome>>
       ELSE IF validate_parsed(parsed).exc THEN Crash("raised") /\ UNCHANGED <<parsed, tier, tiers>>
       ELSE IF ~validate_parsed(parsed).v
       THEN /\ parsed' = Some(offline_summary_fallback(title, text, link))
            /\ tier' = "offline"
            /\ tiers' = Append(tiers, "offline")
            /\ pc' = "classify"
            /\ UNCHANGED outcome
       ELSE /\ pc' = "classify"
            /\ UNCHANGED <<parsed, tier, tiers, outcome>>
    /\ UNCHANGED <<aside, env, entries, candidates, idx, structured, included, article, rendered>>

\* kp_list = [s.strip() for s in re.split(r'[\r\n;•\-]+', kp) if s.strip()]
SplitBullets(kp) ==
    LET pieces == resplit(kp, {"CR", "NL", ";", "BULLET", "-"})
        stripped == [i \in 1..Len(pieces) |-> strip(pieces[i])]
    IN  SelectSeq(stripped, LAMBDA s : s # <<>>)

\* a tail of the loop body that takes the scored category whatever the label
FinalizeByScore(d, ttl, txt, lnk, img) ==
    LET model_cat_norm == normalize_model_category(getor(d, "category", Str(<<>>), Str(<<>>)))
        d1 == [d EXCEPT !.category = Str(score_category_by_keywords(ttl, txt))]
        rel == infer_upsc_relevance(d1, ttl, txt)
        d2 == [d1 EXCEPT !.upsc_relevance = Str(rel.v), !.image_bytes = img]
        d3 == setdefault(setdefault(setdefault(setdefault(d2,
                  "key_points", List(<<>>)), "background", Str(<<>>)),
                  "impact", Str(<<>>)), "source", Str(lnk))
    IN  IF model_cat_norm.exc \/ rel.exc THEN Raise ELSE Ok(d3)

\* The tail of the loop body: category, relevance, the defaults of the fields
Finalize(d, ttl, txt, lnk, img) ==
    LET model_cat_norm == normalize_model_category(getor(d, "category", Str(<<>>), Str(<<>>)))
        category == IF model_cat_norm.v # <<>> THEN model_cat_norm.v
                    ELSE score_category_by_keywords(ttl, txt)
        d1 == [d EXCEPT !.category = Str(category)]
        rel == infer_upsc_relevance(d1, ttl, txt)
        d2 == [d1 EXCEPT !.upsc_relevance = Str(rel.v), !.image_bytes = img]
        d3 == setdefault(setdefault(setdefault(setdefault(d2,
                  "key_points", List(<<>>)), "background", Str(<<>>)),
                  "impact", Str(<<>>)), "source", Str(lnk))
        kp == get(d3, "key_points", List(<<>>))
    IN  IF model_cat_norm.exc THEN Raise
        ELSE IF rel.exc THEN Raise
        ELSE IF kp.t = "str"
        THEN Ok([d3 EXCEPT !.key_points =
                    List([i \in 1..Len(Take(SplitBullets(kp.s), 5)) |->
                             Str(SplitBullets(kp.s)[i])])])
        ELSE Ok(d3)

Classify ==
    /\ pc = "classify"
    /\ IF Finalize(parsed[1], title, text, link, img_bytes).exc
       THEN Crash("raised") /\ UNCHANGED <<parsed, structured, included, idx>>
       ELSE /\ parsed' = Some(Finalize(parsed[1], title, text, link, img_bytes).v)
            /\ structured' = Append(structured, parsed'[1])
            /\ included' = included + 1
            /\ Skip("included")
    /\ UNCHANGED <<aside, env, entries, candidates, article, tier, tiers, rendered>>

\* the record main adds for a candidate when nothing was included
Placeholder(c) ==
    [EmptyDict EXCEPT !.category = Str(<<"M","i","s","c">>),
                      !.section_heading = Str(c.title),
                      !.context = Str(<<"A","u","t","o","-","a","d","d","e","d"," ","h","e","a","d","l","i","n","e"," ","EMDASH"," ","n","o"," ","A","I"," ","s","u","m","m","a","r","y"," ","a","v","a","i","l","a","b","l","e"," ","t","o","d","a","y",".">>),
                      !.background = Str(<<>>),
                      !.key_points = List(<<Str(c.title)>>),
                      !.impact = Str(<<>>),
                      !.upsc_relevance = Str(<<>>),
                      !.source = Str(c.link),
                      !.image_bytes = Null]

\* a main that adds no placeholder
WithoutPlaceholders(recs, cands) == recs

WithPlaceholders(recs, cands) ==
    IF recs # <<>> THEN recs
    ELSE [i \in 1..Len(Take(cands, 3)) |-> Placeholder(cands[i])]

\* build_pdf's display order
DisplayOrder == <<<<"G","S","2">>, <<"G","S","3">>, <<"G","S","1">>, <<"G","S","4">>, <<"C","M","E">>, <<"F","F","P">>, <<"M","a","p","p","i","n","g">>, <<"M","i","s","c">>>>

\* items = [it for it in structured_items if it.get("category") == cat], as positions
ItemsOf(recs, cat) ==
    SelectSeq([i \in 1..Len(recs) |-> i],
              LAMBDA i : get(recs[i], "category", Null) = Str(cat))

RECURSIVE Layout(_, _)
Layout(recs, c) ==
    IF c > Len(DisplayOrder) THEN <<>>
    ELSE ItemsOf(recs, DisplayOrder[c]) \o Layout(recs, c + 1)

\* build_pdf(structured_items): the positions laid out, in order, or Raise when
\* the bullets of a record it reaches cannot be iterated
build_pdf(recs) ==
    IF \E k \in 1..Len(Layout(recs, 1)) :
          iter(get(recs[Layout(recs, 1)[k]], "key_points", List(<<>>))).exc
    THEN Raise
    ELSE Ok(Layout(recs, 1))

Finish ==
    /\ pc = "finish"
    /\ structured' = WithPlaceholders(structured, candidates)
    /\ IF build_pdf(structured').exc
       THEN Crash("pdf_raised") /\ UNCHANGED rendered
       ELSE /\ rendered' = build_pdf(structured').v
            /\ pc' = "done"
            /\ UNCHANGED outcome
    /\ UNCHANGED <<aside, env, entries, candidates, idx, included, article, parsed, tier, tiers>>

Next ==
    \/ Collect
    \/ NextCandidate
    \/ LoopEnd
    \/ KeywordFilter
    \/ Extract
    \/ TryGroq
    \/ TryOpenAI
    \/ OfflineFallback
    \/ CheckParsed
    \/ Validate
    \/ Classify
    \/ Finish

Spec == Init /\ [][Next]_vars

(* ------------------------------------------------------------------ *)
(* safe_trim and the validator applied on their own                    *)
(* ------------------------------------------------------------------ *)
\* main stands still while a function is applied on its own
Parked ==
    /\ memo = <<>>
    /\ env = [groq |-> FALSE, openai |-> FALSE]
    /\ entries = <<>>
    /\ candidates = <<>>
    /\ idx = 1
    /\ pc = "parked"
    /\ structured = <<>>
    /\ included = 0
    /\ title = <<>>
    /\ link = <<>>
    /\ text = <<>>
    /\ img_bytes = Null
    /\ world = NoWorld
    /\ parsed = None
    /\ tier = "none"
    /\ tiers = <<>>
    /\ outcome = "none"
    /\ rendered = <<>>

\* nothing was returned yet
Pending == [t |-> "pending"]

\* the longest text safe_trim is applied to
MaxTextLen == 6

\* the largest character budget
MaxChars == 4

\* the texts safe_trim is applied to
TrimTexts == UNION {[1..n -> {"a", " ", ".", "NL"}] : n \in 0..MaxTextLen}

InitTrim ==
    /\ Parked
    /\ call \in {[f |-> "safe_trim", text |-> t, max_chars |-> n] :
                    t \in TrimTexts, n \in 1..MaxChars}
    /\ ret = Pending

ApplyTrim ==
    /\ call.f = "safe_trim"
    /\ ret = Pending
    /\ ret' = Str(safe_trim(call.text, call.max_chars))
    /\ UNCHANGED <<mainvars, memo, call>>

SpecTrim == InitTrim /\ [][ApplyTrim]_vars

\* the field values the validator is applied to: a body and an ending,
\* the bodies as long as the threshold and one shorter
Xs(n) == [i \in 1..n |-> "x"]

FieldTexts ==
    {b \o e : b \in {<<>>, <<"a","b"," ">>, Xs(TruncLen - 1), Xs(TruncLen)},
              e \in {<<>>, <<"a">>, <<"7">>, <<".">>, <<"?">>, <<"-">>, <<"EMDASH">>, <<"7",".">>, <<"7"," ">>, <<" ">>}}

ValidateCandidates ==
    {[Answer.full EXCEPT !.include = inc, !.context = Str(c), !.background = Str(b)] :
        inc \in {Absent, Yes, Str(<<"N","o">>)},
        c \in FieldTexts \cup {<<" ","S","o","u","r","c","e","_","O","n","l","y"," ">>},
        b \in FieldTexts}

InitValidate ==
    /\ Parked
    /\ call \in {[f |-> "validate_parsed", parsed |-> d] : d \in ValidateCandidates}
    /\ ret = Pending

\* looks_truncated on the two narrative fields of the candidate
ApplyLooksTruncated ==
    /\ call.f = "validate_parsed"
    /\ ret = Pending
    /\ ret' = [t |-> "fields",
               context |-> looks_truncated(call.parsed.context),
               background |-> looks_truncated(call.parsed.background)]
    /\ UNCHANGED <<mainvars, memo, call>>

ApplyValidate ==
    /\ call.f = "validate_parsed"
    /\ ret = Pending
    /\ ret' = [t |-> "valid", v |-> validate_parsed(Some(call.parsed))]
    /\ UNCHANGED <<mainvars, memo, call>>

NextValidate == ApplyLooksTruncated \/ ApplyValidate

SpecValidate == InitValidate /\ [][NextValidate]_vars

(* ------------------------------------------------------------------ *)
(* The tiers of one article                                             *)
(* ------------------------------------------------------------------ *)
\* the tier t was called before the position i of tiers
CalledBefore(t, i) == \E j \in 1..(i - 1) : tiers[j] = t

\* C1: when the deterministic tier is called for an article and the secondary
\* remote tier is configured, the secondary tier was called before it: a
\* candidate the validator rejects goes to the next tier of the order Groq,
\* OpenAI, offline, and not past it.
C1_SecondaryBeforeDeterministic ==
    \A i \in 1..Len(tiers) :
        (tiers[i] = "offline" /\ env.openai) => CalledBefore("openai", i)

\* C2: the candidate of the deterministic tier is valid: validate_parsed
\* returns True on what offline_summary_fallback returned for the article.
C2_OfflineCandidateValid ==
    (tier = "offline" /\ pc \in {"check", "classify"}) =>
        validate_parsed(parsed) = Ok(TRUE)

\* no remote tier produced a candidate for the article of this iteration:
\* the key is missing, every request raised, the status is not 200 or no JSON
\* object can be parsed from the reply
RemoteTiersFailed ==
    /\ groq_summarize(env.groq, world.groq) = None
    /\ openai_summarize(env.openai, world.openai) = None

InPipeline == pc \in {"groq", "openai", "offline", "check", "validate", "classify"}

\* the fields main leaves as the deterministic tier wrote them
SameNarrative(d, e) ==
    \A k \in {"include", "section_heading", "context", "background", "key_points",
              "impact", "source"} : d[k] = e[k]

\* the stages of one iteration, in the order main runs them
Stage ==
    [s \in {"groq", "openai", "offline", "check", "validate", "classify", "loop"} |->
        CASE s = "groq" -> 1 [] s = "openai" -> 2 [] s = "offline" -> 3
          [] s = "check" -> 4 [] s = "validate" -> 5 [] s = "classify" -> 6
          [] OTHER -> 7]

RemoteFailureStep ==
    (InPipeline /\ RemoteTiersFailed) =>
        /\ pc' \in DOMAIN Stage
        /\ Stage[pc'] > Stage[pc]
        /\ pc' # "loop" => structured' = structured /\ idx' = idx
        /\ pc' = "loop" =>
              /\ tier = "offline"
              /\ outcome' = "included"
              /\ idx' = idx + 1
              /\ Len(structured') = Len(structured) + 1
              /\ SubSeq(structured', 1, Len(structured)) = structured
              /\ SameNarrative(structured'[Len(structured')],
                               offline_summary_fallback(title, text, link))

\* C3: when every remote tier fails for an article whose text was extracted,
\* every step of the article's processing leads to a later stage, none raises
\* or drops the article, and the step that returns to the loop appends exactly
\* one record, the candidate of the deterministic tier, and moves on to the
\* next candidate.
C3_RemoteFailureFallsBack == [][RemoteFailureStep]_vars

\* both remote tiers were called, both failed, and the offline record is in
C3_Witness ==
    /\ pc = "loop"
    /\ outcome = "included"
    /\ RemoteTiersFailed
    /\ env.groq /\ env.openai
    /\ tiers = <<"groq", "openai", "offline">>
    /\ Len(structured) = 1
    /\ structured[1].context = Str(Sentence.policy)

\* what the remote tiers returned for the article: the first that did
RemoteObject ==
    IF groq_summarize(env.groq, world.groq) # None
    THEN groq_summarize(env.groq, world.groq)
    ELSE openai_summarize(env.openai, world.openai)

\* an iteration has just ended for an article whose text was extracted
IterationEnded == pc = "loop" /\ idx > 1 /\ text # <<>>

\* C4: an article for which a remote tier returned a JSON object that does not
\* decline it (include is missing or yes), some or all of the other keys
\* missing, ends with a record whose missing keys are defaulted.
C4_MissingKeysDefaulted ==
    (/\ IterationEnded
     /\ RemoteObject # None
     /\ lower(pystr(get(RemoteObject[1], "include", Yes))) = <<"y","e","s">>) =>
        /\ outcome = "included"
        /\ \A k \in {"category", "key_points", "background", "impact",
                      "upsc_relevance", "source"} :
               structured[Len(structured)][k] # Absent

\* C5: nothing raises in the loop body of main, whatever JSON object a remote
\* tier returned.
C5_NoExceptionPropagates == outcome # "raised"

NonEmptyStr(v) == v.t = "str" /\ v.s # <<>>

HasNarrative(d) ==
    \/ NonEmptyStr(d.context)
    \/ NonEmptyStr(d.background)
    \/ d.key_points.t = "list" /\ \E i \in 1..Len(d.key_points.l) : NonEmptyStr(d.key_points.l[i])

\* C6: every record main appended has a non-empty context, a non-empty
\* background or a non-empty bullet.
C6_GuaranteedContent ==
    \A i \in 1..Len(structured) : HasNarrative(structured[i])

(* ------------------------------------------------------------------ *)
(* The records handed to build_pdf                                      *)
(* ------------------------------------------------------------------ *)
Taxonomy == {<<"G","S","1">>, <<"G","S","2">>, <<"G","S","3">>, <<"G","S","4">>, <<"C","M","E">>, <<"F","F","P">>, <<"M","a","p","p","i","n","g">>, <<"M","i","s","c">>}

\* build_pdf was called, and structured is what it was called with
HandedToRenderer == pc = "done" \/ outcome = "pdf_raised"

\* C7: every record handed to build_pdf has a category of the taxonomy, and
\* build_pdf lays out every record exactly once.
C7_CategoryClosed ==
    /\ HandedToRenderer =>
          \A i \in 1..Len(structured) :
              \E c \in Taxonomy : structured[i].category = Str(c)
    /\ pc = "done" =>
          \A i \in 1..Len(structured) :
              Cardinality({k \in 1..Len(rendered) : rendered[k] = i}) = 1

\* two records are laid out, the second from an answer whose category
\* ("Sports") is no known label, grouped ahead of the first
C7_Witness ==
    /\ pc = "done"
    /\ Len(structured) = 2
    /\ world.groq = GroqReply(0, 200, TRUE, <<Txt>> \o Encode(Answer.nested) \o <<Txt>>)
    /\ tier = "groq"
    /\ outcome = "included"
    /\ rendered = <<2, 1>>

\* C8: every record handed to build_pdf has a list as its key_points.
C8_KeyPointsIsList ==
    HandedToRenderer =>
        \A i \in 1..Len(structured) : structured[i].key_points.t = "list"

(* ------------------------------------------------------------------ *)
(* safe_trim                                                            *)
(* ------------------------------------------------------------------ *)
Terminators == {".", "!", "?"}

IsPrefix(r, t) == Len(r) <= Len(t) /\ SubSeq(t, 1, Len(r)) = r

\* the last character of r and the character of t after it belong to one word
MidWord(r, t) ==
    /\ Len(r) > 0
    /\ Len(r) < Len(t)
    /\ IsWordChar(r[Len(r)])
    /\ IsWordChar(t[Len(r) + 1])

\* C9: when the text is longer than max_chars and a sentence terminator occurs
\* within its first max_chars characters, safe_trim returns a prefix of the
\* text that does not end inside a word.
C9_NeverMidWord ==
    (/\ call.f = "safe_trim"
     /\ ret # Pending
     /\ Len(call.text) > call.max_chars
     /\ \E i \in 1..call.max_chars : call.text[i] \in Terminators) =>
        /\ IsPrefix(ret.s, call.text)
        /\ ~MidWord(ret.s, call.text)

(* ------------------------------------------------------------------ *)
(* The validator on the narrative fields                                *)
(* ------------------------------------------------------------------ *)
EndsWith(t, cs) == Len(t) > 0 /\ t[Len(t)] \in cs

\* a field looks truncated, as the specification words it
TruncatedAsStated(s) ==
    LET t == strip(s)
    IN  \/ EndsWith(t, {"-", "EMDASH"})
        \/ EndsWith(t, Digits)
        \/ Len(t) > 120 /\ ~EndsWith(t, {".", "!", "?"})

IncludeYes(d) == lower(pystr(get(d, "include", Yes))) = <<"y","e","s">>

IsSentinel(d) == upper(strip(d.context.s)) = <<"S","O","U","R","C","E","_","O","N","L","Y">>

\* C10: looks_truncated answers True on a field exactly when the stripped
\* field ends with a hyphen or a dash, or ends with a digit, or is longer than
\* 120 characters and does not end with '.', '!' or '?' (so never on an empty
\* field); and validate_parsed rejects a candidate with include = yes, whose
\* context is not the sentinel, when its context or its background does.
C10_ValidatorRejectsTruncated ==
    /\ ret.t = "fields" =>
          /\ ret.context = Ok(TruncatedAsStated(call.parsed.context.s))
          /\ ret.background = Ok(TruncatedAsStated(call.parsed.background.s))
    /\ (/\ ret.t = "valid"
        /\ IncludeYes(call.parsed)
        /\ ~IsSentinel(call.parsed)
        /\ \/ TruncatedAsStated(call.parsed.context.s)
           \/ TruncatedAsStated(call.parsed.background.s)) =>
          ret.v = Ok(FALSE)

\* a candidate is rejected for a background of 121 characters with no
\* terminal punctuation, its context being a full sentence
C10_Witness ==
    /\ ret.t = "valid"
    /\ ret.v = Ok(FALSE)
    /\ call.parsed.include = Yes
    /\ call.parsed.context = Str(<<"a","b"," ",".">>)
    /\ call.parsed.background = Str(Xs(120) \o <<"a">>)

(* ------------------------------------------------------------------ *)
(* The bullets the validator lets through                               *)
(* ------------------------------------------------------------------ *)
\* the validator let the candidate of a remote tier through: main is about to
\* classify what Groq or OpenAI returned
AcceptedRemote == pc = "classify" /\ tier \in {"groq", "openai"}

\* the context the remote tier gave is the sentinel
RemoteSentinel ==
    /\ ~CtxVal(RemoteObject[1]).exc
    /\ upper(CtxVal(RemoteObject[1]).v) = <<"S","O","U","R","C","E","_","O","N","L","Y">>

\* the entries of a key_points value that hold some text
Substantive(kp) ==
    IF kp.t # "list" THEN {}
    ELSE {i \in 1..Len(kp.l) : kp.l[i].t = "str" /\ strip(kp.l[i].s) # <<>>}

\* C11: a candidate with include = yes, whose context is not the sentinel, is
\* rejected by the validator when its key_points holds fewer substantive
\* entries than the minimum: whatever the minimum (at least one) and the
\* length threshold (at least zero), a candidate the validator let through
\* holds at least one bullet with some text.
C11_FewFactsRejected ==
    (AcceptedRemote /\ ~RemoteSentinel) =>
        Substantive(get(parsed[1], "key_points", List(<<>>))) # {}

(* ------------------------------------------------------------------ *)
(* score_category_by_keywords applied on its own                        *)
(* ------------------------------------------------------------------ *)
\* the longest text, in words
MaxWords == 2

\* words of the keyword tables: caste (GS1), court and pib (GS2), bank (GS3),
\* map (Mapping), tax (FFP), and a word of no table
ScoreWords == {<<"c","a","s","t","e">>, <<"c","o","u","r","t">>, <<"p","i","b">>, <<"b","a","n","k">>, <<"m","a","p">>, <<"t","a","x">>, <<"r","a","i","n">>}

ScoreTexts ==
    {join(<<" ">>, ws) : ws \in UNION {[1..n -> ScoreWords] : n \in 0..MaxWords}}

InitScore ==
    /\ Parked
    /\ call \in {[f |-> "score_category_by_keywords", title |-> ttl, text |-> txt] :
                    ttl \in {<<>>, <<"C","o","u","r","t">>}, txt \in ScoreTexts}
    /\ ret = Pending

\* category, scores = score_category_by_keywords(title, text)
ApplyScore ==
    /\ call.f = "score_category_by_keywords"
    /\ ret = Pending
    /\ ret' = [t |-> "category",
               category |-> score_category_by_keywords(call.title, call.text),
               scores |-> Scores(call.title, call.text)]
    /\ UNCHANGED <<mainvars, memo, call>>

SpecScore == InitScore /\ [][ApplyScore]_vars

\* the positions in CategoryOrder of the categories of the fixed priority list
Cats == 1..Len(CategoryOrder)

BestScore(sc) == CHOOSE b \in {sc[c] : c \in Cats} : \A c \in Cats : sc[c] <= b

\* the score of the runner-up: the best score when two categories reach it,
\* else the highest score below it
RunnerUpScore(sc) ==
    IF Cardinality({c \in Cats : sc[c] = BestScore(sc)}) > 1 THEN BestScore(sc)
    ELSE CHOOSE r \in {sc[c] : c \in Cats} :
            /\ r < BestScore(sc)
            /\ \A c \in Cats : sc[c] < BestScore(sc) => sc[c] <= r

\* the category of cs that comes first in the priority list GS2, GS3, GS1, GS4,
\* CME, FFP, Mapping, Misc
PriorityList == <<<<"G","S","2">>, <<"G","S","3">>, <<"G","S","1">>, <<"G","S","4">>, <<"C","M","E">>, <<"F","F","P">>, <<"M","a","p","p","i","n","g">>, <<"M","i","s","c">>>>

FirstByPriority(cs) ==
    PriorityList[CHOOSE p \in 1..Len(PriorityList) :
                    /\ PriorityList[p] \in cs
                    /\ \A q \in 1..(p - 1) : PriorityList[q] \notin cs]

\* C12: when the runner-up's score is at least 70% of the winner's, the
\* category returned is the one of the contenders (the winner, the runner-up
\* and the categories that score as much as either) that comes first in the
\* priority list, the runner-up included.
C12_CloseScoresByPriority ==
    (/\ ret.t = "category"
     /\ BestScore(ret.scores) > 0
     /\ 10 * RunnerUpScore(ret.scores) >= 7 * BestScore(ret.scores)) =>
        ret.category =
            FirstByPriority({CategoryOrder[c] : c \in
                                {k \in Cats : ret.scores[k] >= RunnerUpScore(ret.scores)}})

\* C13: when two or more categories share the highest score and it is
\* positive, the category returned is the one of them that comes first in the
\* priority list; when every category scores zero the category is Misc.
C13_TieByPriority ==
    ret.t = "category" =>
        /\ (/\ BestScore(ret.scores) > 0
            /\ Cardinality({c \in Cats : ret.scores[c] = BestScore(ret.scores)}) > 1) =>
               ret.category =
                   FirstByPriority({CategoryOrder[c] : c \in
                                       {k \in Cats : ret.scores[k] = BestScore(ret.scores)}})
        /\ BestScore(ret.scores) = 0 => ret.category = <<"M","i","s","c">>

\* caste and court score the same for GS1 and GS2: GS1 is declared first, GS2
\* comes first in the priority list and is returned
C13_Witness ==
    /\ ret.t = "category"
    /\ call.title = <<>>
    /\ call.text = <<"c","a","s","t","e"," ","c","o","u","r","t">>
    /\ ret.scores[CatIndex(<<"G","S","1">>)] = ret.scores[CatIndex(<<"G","S","2">>)]
    /\ ret.scores[CatIndex(<<"G","S","1">>)] > 0
    /\ ret.category = <<"G","S","2">>

(* ------------------------------------------------------------------ *)
(* The category and the relevance label of the records                  *)
(* ------------------------------------------------------------------ *)
\* the iteration of an article has just ended with a record appended
JustIncluded == pc = "loop" /\ idx > 1 /\ outcome = "included" /\ text # <<>>

\* the candidate main accepted for the article: that of the deterministic
\* tier, or the object the remote tier returned
AcceptedCandidate ==
    IF tier = "offline" THEN offline_summary_fallback(title, text, link)
    ELSE RemoteObject[1]

\* the label the accepted candidate carries, "" when it carries none
AcceptedLabel == getor(AcceptedCandidate, "category", Str(<<>>), Str(<<>>))

LastRecord == structured[Len(structured)]

\* C14: the category of an emitted record is the normalised label of the
\* accepted candidate when the label is not empty and normalises into the
\* taxonomy, whatever the keyword scores of title and text; it is the scored
\* category only when the label is absent or does not normalise.
C14_LabelTakesPrecedence ==
    JustIncluded =>
        LastRecord.category =
            IF normalize_model_category(AcceptedLabel).v # <<>>
            THEN Str(normalize_model_category(AcceptedLabel).v)
            ELSE Str(score_category_by_keywords(title, text))

\* a record whose label normalises to a category the keyword scores do not give
C14_Witness ==
    /\ JustIncluded
    /\ tier = "groq"
    /\ normalize_model_category(AcceptedLabel).v # <<>>
    /\ normalize_model_category(AcceptedLabel).v # score_category_by_keywords(title, text)
    /\ LastRecord.category = Str(normalize_model_category(AcceptedLabel).v)

\* C15: the relevance label of a record is stamped from its final category:
\* two records with the same category carry the same upsc_relevance, whichever
\* tier produced them and whatever relevance text the tier supplied.
C15_RelevanceFromCategory ==
    \A i, j \in 1..Len(structured) :
        structured[i].category = structured[j].category =>
            structured[i].upsc_relevance = structured[j].upsc_relevance

(* ------------------------------------------------------------------ *)
(* The bullets of the records                                           *)
(* ------------------------------------------------------------------ *)
\* s with every run of whitespace collapsed into one space
RECURSIVE Collapse(_)
Collapse(s) ==
    IF s = <<>> THEN <<>>
    ELSE IF IsSpace(Head(s))
    THEN IF Len(s) > 1 /\ IsSpace(s[2]) THEN Collapse(Tail(s))
         ELSE <<" ">> \o Collapse(Tail(s))
    ELSE <<Head(s)>> \o Collapse(Tail(s))

\* the fingerprint of a sentence: lower case, whitespace collapsed
Fingerprint(s) == Collapse(lower(strip(s)))

\* no two entries of the list kp that are texts share a fingerprint
NoSharedFingerprint(kp) ==
    kp.t = "list" =>
        \A i, j \in 1..Len(kp.l) :
            (i # j /\ kp.l[i].t = "str" /\ kp.l[j].t = "str") =>
                Fingerprint(kp.l[i].s) # Fingerprint(kp.l[j].s)

\* C16: in every record main appended, no two entries of key_points are equal
\* after lower-casing and collapsing whitespace.
C16_FactsDeduplicated ==
    \A i \in 1..Len(structured) : NoSharedFingerprint(structured[i].key_points)

(* ------------------------------------------------------------------ *)
(* offline_summary_fallback applied on its own                          *)
(* ------------------------------------------------------------------ *)
\* the most sentences a text is made of
MaxSentences == 6

\* a sentence of words, one of 41 characters and one of 40: the first two are
\* longer than 40 characters
OfflineSentences == {Sentence.policy, Xs(MinSentenceLen + 1), Xs(MinSentenceLen)}

\* the lists of sentences the texts are made of
OfflineParts == UNION {[1..n -> OfflineSentences] : n \in 1..MaxSentences}

\* the text is its sentences, each closed by a period, a space between two
InitOffline ==
    /\ Parked
    /\ call \in {[f |-> "offline_summary_fallback", title |-> ttl, parts |-> ss,
                  text |-> join(<<"."," ">>, ss) \o <<".">>, url |-> <<"u","1">>] :
                    ttl \in {<<>>, <<"B","u","d","g","e","t"," ","2","0","2","4">>}, ss \in OfflineParts}
    /\ ret = Pending

ApplyOffline ==
    /\ call.f = "offline_summary_fallback"
    /\ ret = Pending
    /\ ret' = [t |-> "candidate",
               d |-> offline_summary_fallback(call.title, call.text, call.url)]
    /\ UNCHANGED <<mainvars, memo, call>>

SpecOffline == InitOffline /\ [][ApplyOffline]_vars

\* the sentences of the text that are longer than 40 characters, in order
LongParts == SelectSeq(call.parts, LAMBDA s : Len(s) > 40)

\* C17: offline_summary_fallback returns, for a non-empty text, a candidate
\* with include = "yes" and a non-empty key_points list: the second to the
\* fifth of the sentences longer than 40 characters when there are at least
\* two of them, else the title as the single bullet.
C17_FallbackFloor ==
    ret.t = "candidate" =>
        /\ ret.d.include = Str(<<"y","e","s">>)
        /\ ret.d.key_points.t = "list"
        /\ ret.d.key_points.l # <<>>
        /\ ret.d.key_points.l =
              IF Len(LongParts) >= 2
              THEN [i \in 1..(Min(Len(LongParts), 5) - 1) |-> Str(LongParts[i + 1])]
              ELSE <<Str(call.title)>>

\* six long sentences, the first two apart: the bullets are the second to the
\* fifth, the sixth is left out
C17_Witness ==
    /\ ret.t = "candidate"
    /\ Len(LongParts) = 6
    /\ LongParts[1] # LongParts[2]
    /\ Len(ret.d.key_points.l) = 4
    /\ ret.d.key_points.l[1] = Str(LongParts[2])
    /\ ret.d.key_points.l[4] = Str(LongParts[5])

(* ------------------------------------------------------------------ *)
(* The requests of the remote tiers, one at a time                      *)
(* ------------------------------------------------------------------ *)
\* the most attempts, the longest backoff and the most requests that raise
MaxAttempts == 3

MaxBackoff == 3

MaxRaises == 4

\* a call in progress: i is the index of the loop, requests counts the
\* requests posted, slept lists the waits, r is what the call returned
Running == [t |-> "running", i |-> 0, requests |-> 0, slept |-> <<>>, r |-> "pending"]

\* the first `raises` requests of the call raise, the next one is answered
InitRetry ==
    /\ Parked
    /\ call \in
          {[f |-> "call_groq_with_retries", attempts |-> a, backoff |-> b, raises |-> n] :
              a \in 1..MaxAttempts, b \in 1..MaxBackoff, n \in 0..MaxRaises} \cup
          {[f |-> "openai_summarize", attempts |-> 1, backoff |-> 0, raises |-> n] :
              n \in 0..MaxRaises}
    /\ ret = Running

\* one turn of `for i in range(attempts)`: requests.post returns, and the
\* response is returned, or raises, and the loop sleeps backoff * (i + 1)
GroqAttempt ==
    /\ call.f = "call_groq_with_retries"
    /\ ret.t = "running"
    /\ ret.i < call.attempts
    /\ ret' = IF ret.requests < call.raises
              THEN [ret EXCEPT !.i = ret.i + 1,
                               !.requests = ret.requests + 1,
                               !.slept = Append(ret.slept, call.backoff * (ret.i + 1))]
              ELSE [ret EXCEPT !.t = "returned",
                               !.requests = ret.requests + 1,
                               !.r = "response"]
    /\ UNCHANGED <<mainvars, memo, call>>

\* the loop is over: return None
GroqExhausted ==
    /\ call.f = "call_groq_with_retries"
    /\ ret.t = "running"
    /\ ret.i >= call.attempts
    /\ ret' = [ret EXCEPT !.t = "returned", !.r = "none"]
    /\ UNCHANGED <<mainvars, memo, call>>

\* openai_summarize: one client.chat.completions.create in one try; what it
\* raises is caught and None is returned
OpenAIRequest ==
    /\ call.f = "openai_summarize"
    /\ ret.t = "running"
    /\ ret' = [ret EXCEPT !.t = "returned",
                          !.requests = ret.requests + 1,
                          !.r = IF ret.requests < call.raises THEN "none" ELSE "response"]
    /\ UNCHANGED <<mainvars, memo, call>>

NextRetry == GroqAttempt \/ GroqExhausted \/ OpenAIRequest

SpecRetry == InitRetry /\ [][NextRetry]_vars

\* the call is one a tier of main makes: groq_summarize calls with three
\* attempts and a backoff of three seconds
AsTheTiersCall ==
    \/ call.f = "openai_summarize"
    \/ call.f = "call_groq_with_retries" /\ call.attempts = 3 /\ call.backoff = 3

\* C18: every remote-model call is retried a fixed number of times with a
\* linearly increasing backoff and ends: a call never posts more requests
\* than its attempts, the wait after the failed attempt of index i is
\* backoff * (i + 1), the first response received is returned, None is
\* returned once every attempt has raised, and a call of a tier whose first
\* request raised has posted a second request after a wait.
C18_RemoteCallsRetried ==
    /\ ret.t \in {"running", "returned"} =>
          /\ ret.requests <= call.attempts
          /\ ret.slept = [k \in 1..Len(ret.slept) |-> call.backoff * k]
    /\ ret.t = "returned" =>
          /\ ret.r = "response" => ret.requests = call.raises + 1
          /\ ret.r = "none" => ret.requests = call.attempts /\ call.raises >= call.attempts
          /\ (AsTheTiersCall /\ call.raises >= 1) =>
                ret.requests >= 2 /\ ret.slept # <<>>

(* ------------------------------------------------------------------ *)
(* The article loop over long feeds                                     *)
(* ------------------------------------------------------------------ *)
\* the entries of a long feed
LoopFeedLen == 40

\* Long feeds, a feed of two entries and the empty feed.  The first token of
\* a link tells what its site serves (see Served).  Every fifth entry of a
\* long feed repeats the link of the first one.  In the first feed every
\* article ends included; in the second the articles are skipped in each of
\* the ways main skips, or included; in the others every article is declined.
LoopFeeds ==
    LET Link(kind, n) == <<kind>> \o pystr(Num(n))
        Kind(i) == <<"g", "n", "e", "x", "o", "g">>[(i % 6) + 1]
        Declined(n) ==
            [i \in 1..n |->
                IF i % 5 = 0 THEN Entry(Headline.cabinet.title, Link("x", 1))
                ELSE Entry(Headline.cabinet.title, Link("x", i))]
    IN  {[i \in 1..LoopFeedLen |->
            IF i % 5 = 0 THEN Entry(Headline.cabinet.title, Link("o", 1))
            ELSE Entry(Headline.cabinet.title, Link(IF i % 2 = 0 THEN "g" ELSE "o", i))],
         [i \in 1..LoopFeedLen |->
            IF i % 5 = 0 THEN Entry(Headline.cabinet.title, Link("g", 1))
            ELSE Entry(IF Kind(i) = "n" THEN Headline.budget.title
                       ELSE Headline.cabinet.title,
                       Link(Kind(i), i))],
         Declined(LoopFeedLen), Declined(2), <<>>}

\* what the site of a link serves and what the remote tiers answer for it:
\* n no text; e the empty object; x an object that declines the article;
\* g a complete object; o nothing from either remote tier
Served(lnk) ==
    LET Groq(d) == GroqReply(0, 200, TRUE, <<Txt>> \o Encode(d) \o <<Txt>>)
        full == Page(PageText.plain, Null)
    IN  CASE lnk[1] = "n" -> [page |-> Page(<<>>, Null), w |-> NoWorld]
          [] lnk[1] = "e" -> [page |-> full, w |-> [NoWorld EXCEPT !.groq = Groq(Answer.empty)]]
          [] lnk[1] = "x" -> [page |-> full, w |-> [NoWorld EXCEPT !.groq = Groq(Answer.no)]]
          [] lnk[1] = "g" -> [page |-> full, w |-> [NoWorld EXCEPT !.groq = Groq(Answer.full)]]
          [] OTHER -> [page |-> full, w |-> NoWorld]

\* main on a long feed, both API keys set
InitLoop ==
    /\ memo = MemoOfRun
    /\ env = [groq |-> TRUE, openai |-> TRUE]
    /\ entries \in LoopFeeds
    /\ candidates = <<>>
    /\ idx = 1
    /\ pc = "start"
    /\ structured = <<>>
    /\ included = 0
    /\ title = <<>>
    /\ link = <<>>
    /\ text = <<>>
    /\ img_bytes = Null
    /\ world = NoWorld
    /\ parsed = None
    /\ tier = "none"
    /\ tiers = <<>>
    /\ outcome = "none"
    /\ rendered = <<>>
    /\ call = NoCall
    /\ ret = NoCall

ExtractServed == ExtractFrom({Served(link)})

NextLoop ==
    \/ Collect
    \/ NextCandidate
    \/ LoopEnd
    \/ KeywordFilter
    \/ ExtractServed
    \/ TryGroq
    \/ TryOpenAI
    \/ OfflineFallback
    \/ CheckParsed
    \/ Validate
    \/ Classify
    \/ Finish

SpecLoop == InitLoop /\ [][NextLoop]_vars

InLoop ==
    pc \in {"loop", "filter", "extract", "groq", "openai", "offline", "check",
            "validate", "classify"}

\* main is in the body of the loop, at work on the candidate idx
InBody == InLoop /\ pc # "loop"

\* the positions of entries that hold the first occurrence of their link
FirstOccurrences ==
    SelectSeq([i \in 1..Len(entries) |-> i],
              LAMBDA i : \A j \in 1..(i - 1) : entries[j].link # entries[i].link)

\* what holds in every state of the loop
LoopState ==
    InLoop =>
        /\ included = Len(structured)
        /\ included <= 12
        /\ InBody => included < 12
        /\ Len(candidates) <= 30
        /\ \A i, j \in 1..Len(candidates) :
               i # j => candidates[i].link # candidates[j].link
        /\ candidates =
              [k \in 1..Min(Len(FirstOccurrences), 30) |-> entries[FirstOccurrences[k]]]
        /\ InBody => idx \in 1..Len(candidates) /\ link = candidates[idx].link

\* what holds of every step of the loop
LoopStep ==
    InLoop =>
        /\ idx' \in {idx, idx + 1}
        /\ (pc = "loop" /\ included >= 12) => pc' = "finish"
        /\ (InBody /\ pc' = "loop") => idx' = idx + 1
        /\ (idx' = idx + 1 /\ outcome' \in {"filtered", "notext", "empty", "excluded"}) =>
              included' = included /\ structured' = structured
        /\ (idx' = idx + 1 /\ outcome' = "included") =>
              included' = included + 1 /\ Len(structured') = Len(structured) + 1
        /\ idx' = idx => included' = included

\* C19: in every state of the article loop the inclusion counter equals the
\* number of records appended and is at most 12; no article is processed
\* once the counter is 12 and the loop then ends; the candidates are the first
\* occurrences of the links of the feed, in feed order, at most 30 of them and
\* pairwise distinct, and each is processed at most once (the index only
\* moves forward, by one, when an iteration ends); an article that is skipped
\* (keyword filter, no text, empty candidate, include other than yes) leaves
\* the counter and the records as they were.
C19_LoopBounded == []LoopState /\ [][LoopStep]_vars

\* the loop ended at the cap of 12 inclusions with candidates left, the feed
\* holding more than 30 links of which 30 were kept
C19_Witness ==
    /\ pc = "finish"
    /\ included = 12
    /\ Len(structured) = 12
    /\ idx = 13
    /\ Len(candidates) = 30
    /\ Len(FirstOccurrences) > 30
    /\ Len(entries) > Len(FirstOccurrences)

(* ------------------------------------------------------------------ *)
(* The placeholder records                                              *)
(* ------------------------------------------------------------------ *)
\* the record is a placeholder for the candidate c
IsPlaceholderOf(d, c) ==
    /\ d.category = Str(<<"M","i","s","c">>)
    /\ d.key_points = List(<<Str(c.title)>>)
    /\ d.source = Str(c.link)

\* C20: when the loop ended with no record included, the list handed to
\* build_pdf holds one placeholder for each of the first min(3, number of
\* candidates) candidates, in their order, each with category Misc, the
\* headline as its only bullet and the link as its source; when a record was
\* included no placeholder is added; the list is empty only if there is no
\* candidate.
C20_PlaceholdersWhenEmpty ==
    HandedToRenderer =>
        /\ included = 0 =>
              /\ Len(structured) = Min(3, Len(candidates))
              /\ \A k \in 1..Len(structured) : IsPlaceholderOf(structured[k], candidates[k])
        /\ included > 0 =>
              /\ Len(structured) = included
              /\ \A k \in 1..Len(structured) :
                     structured[k].context #
                         Str(<<"A","u","t","o","-","a","d","d","e","d"," ","h","e","a","d","l","i","n","e"," ","EMDASH"," ","n","o"," ","A","I"," ","s","u","m","m","a","r","y"," ","a","v","a","i","l","a","b","l","e"," ","t","o","d","a","y",".">>)
        /\ structured = <<>> => candidates = <<>>

\* thirty candidates, none included: three placeholders are laid out
C20_Witness ==
    /\ pc = "done"
    /\ included = 0
    /\ Len(candidates) = 30
    /\ Len(structured) = 3
    /\ IsPlaceholderOf(structured[3], candidates[3])
    /\ rendered = <<1, 2, 3>>
====
